---- MODULE Spec2Model ----
(***************************************************************************)
(* The database gateway of src-tauri/src/lib.rs: the connection registry   *)
(* (AppState), the connect commands, the backend commands that read the    *)
(* registry, and the SSH tunnel with its background accept loop.           *)
(*                                                                         *)
(* Every awaited network or database call is one step of the model whose   *)
(* outcome is chosen by the environment; the code between two awaits is    *)
(* part of the step that completes the first of them.  Every state of the  *)
(* model therefore shows each command either suspended in an await or      *)
(* returned.  A std::sync::Mutex critical section has no await inside, so  *)
(* it lies within one step, which waits until the lock is free; `mutex`    *)
(* records who holds each lock when the step ends.                         *)
(***************************************************************************)
EXTENDS Integers, Sequences, FiniteSets, TLC

\* ------------------------------------------------------------------ bounds
\* Commands in flight at the same time (tauri runs async commands concurrently).
NumTasks == 2
\* Commands invoked in one run.
MaxCalls == 3
\* Tunnels established in one run.
MaxTunnels == 2
\* Local connections accepted by the tunnels' listeners in one run.
MaxConns == 2
\* Connect commands invoked in a run that follows the accept loops.
MaxLoopCalls == 1
\* Bytes a client writes into one forwarded connection.
MaxLen == 2
\* Primary-key values of the relational table.
MaxKey == 2
\* Entries of the map given to insert_row.
MaxCols == 2
\* Local connections accepted in a run that follows the bytes of the splice.
MaxSpliceConns == 1

Tasks == 1..NumTasks

\* --------------------------------------------------------------- registry
\* Option::None of a slot; a live handle is the number of the call that made it.
None == 0

\* The backend kinds; the strings are the keys connect_* uses for ssh_sessions.
Kinds == {"redis", "mysql", "postgres", "sqlite", "mongodb"}

\* The AppState field that holds the handle of a kind.
SlotOf(kind) ==
    CASE kind = "redis"    -> "redis_client"
      [] kind = "mysql"    -> "mysql_pool"
      [] kind = "postgres" -> "pg_pool"
      [] kind = "sqlite"   -> "sqlite_pool"
      [] kind = "mongodb"  -> "mongo_client"

SlotNames == {SlotOf(k) : k \in Kinds}

\* One std::sync::Mutex per field of AppState.
MutexNames == SlotNames \cup {"ssh_sessions"}

\* connect_sqlite takes no sshConfig; the other four connects do.
TunnelKinds == Kinds \ {"sqlite"}

\* The shapes of SshConfig that matter: absent, with a password, without one.
SshInputs(kind) ==
    IF kind \in TunnelKinds THEN {"none", "password", "no_password"} ELSE {"none"}

\* ---------------------------------------------------------------- commands
\* Every backend command of invoke_handler, with its kind and the shape of its
\* awaited calls:
\*   single            one database call
\*   double            two calls, a failure of either returns the error
\*   redis_get_value   connection, TYPE, then the read of a supported type
\*   redis_execute_raw connection, then the command unless the line is empty
\*   postgres_get_rows primary-key lookup whose failure is ignored, then rows
Commands ==
    [ redis_get_keys     |-> <<"redis", "double">>,
      redis_get_value    |-> <<"redis", "redis_get_value">>,
      redis_set_value    |-> <<"redis", "double">>,
      redis_del_key      |-> <<"redis", "double">>,
      redis_get_ttl      |-> <<"redis", "double">>,
      redis_execute_raw  |-> <<"redis", "redis_execute_raw">>,
      redis_rename_key   |-> <<"redis", "double">>,
      mysql_get_tables           |-> <<"mysql", "single">>,
      mysql_get_rows             |-> <<"mysql", "single">>,
      mysql_get_count            |-> <<"mysql", "single">>,
      mysql_get_primary_key      |-> <<"mysql", "single">>,
      mysql_update_cell          |-> <<"mysql", "single">>,
      mysql_get_databases        |-> <<"mysql", "single">>,
      mysql_use_database         |-> <<"mysql", "single">>,
      mysql_get_tables_with_size |-> <<"mysql", "single">>,
      mysql_get_views            |-> <<"mysql", "single">>,
      mysql_get_functions        |-> <<"mysql", "single">>,
      mysql_get_procedures       |-> <<"mysql", "single">>,
      mysql_execute_raw          |-> <<"mysql", "single">>,
      mysql_get_columns          |-> <<"mysql", "single">>,
      mysql_insert_row           |-> <<"mysql", "single">>,
      mysql_delete_row           |-> <<"mysql", "single">>,
      mysql_drop_table           |-> <<"mysql", "single">>,
      mysql_rename_table         |-> <<"mysql", "single">>,
      postgres_get_databases        |-> <<"postgres", "single">>,
      postgres_get_tables           |-> <<"postgres", "single">>,
      postgres_get_tables_with_size |-> <<"postgres", "single">>,
      postgres_get_views            |-> <<"postgres", "single">>,
      postgres_get_functions        |-> <<"postgres", "single">>,
      postgres_get_procedures       |-> <<"postgres", "single">>,
      postgres_get_rows             |-> <<"postgres", "postgres_get_rows">>,
      postgres_get_count            |-> <<"postgres", "single">>,
      postgres_get_primary_key      |-> <<"postgres", "single">>,
      postgres_update_cell          |-> <<"postgres", "double">>,
      postgres_execute_raw          |-> <<"postgres", "single">>,
      postgres_get_columns          |-> <<"postgres", "single">>,
      postgres_insert_row           |-> <<"postgres", "double">>,
      postgres_delete_row           |-> <<"postgres", "single">>,
      postgres_drop_table           |-> <<"postgres", "single">>,
      postgres_rename_table         |-> <<"postgres", "single">>,
      sqlite_get_tables      |-> <<"sqlite", "single">>,
      sqlite_get_rows        |-> <<"sqlite", "single">>,
      sqlite_update_cell     |-> <<"sqlite", "single">>,
      sqlite_get_primary_key |-> <<"sqlite", "single">>,
      sqlite_execute_raw     |-> <<"sqlite", "single">>,
      sqlite_get_columns     |-> <<"sqlite", "single">>,
      sqlite_get_count       |-> <<"sqlite", "single">>,
      sqlite_insert_row      |-> <<"sqlite", "single">>,
      sqlite_delete_row      |-> <<"sqlite", "single">>,
      sqlite_drop_table      |-> <<"sqlite", "single">>,
      sqlite_rename_table    |-> <<"sqlite", "single">> ]

\* ------------------------------------------------------------------- state
VARIABLES
    state,      \* AppState: the five connection slots and ssh_sessions
    mutex,      \* for each Mutex of AppState, the task that holds it, 0 if free
    tasks,      \* the command each task runs and where it stands in it
    tunnels,    \* the tunnels established so far, each with its accept loop
    calls,      \* the number of commands invoked so far
    db,         \* the data behind the backend whose data the run follows
    changes,    \* sqlite3_changes() of the connections of each sqlite pool
    reply       \* the last command that reached that data: inputs and result

vars == <<state, mutex, tasks, tunnels, calls, db, changes, reply>>

\* The backend servers hold their data, not the gateway.  A run follows the
\* data of one backend, the first one a data command is sent to: the one
\* table of a relational database, with the integer primary key `id` and the
\* text column `name`, or the one key of the key-value store.
\*   table   the name the table has now, "none" once it is dropped
\*   schema  "assigned": the key column takes the keys the statements give;
\*           "generated": the engine makes a key for a row that comes with
\*           none (INTEGER PRIMARY KEY, AUTO_INCREMENT, serial)
\*   use     the databases selected on the connections of the mysql pool
\*   rows    the rows of the table
\*   next    the key the engine's counter gives next (AUTO_INCREMENT of
\*           mysql, the sequence of a postgres serial column), 0 where the
\*           engine keeps none
\*   key     what the key of the key-value store holds
NoKey == [type |-> "none", str |-> "", list |-> <<>>, set |-> {}, hash |-> {}]

NoData ==
    [ kind |-> "none", table |-> "t", schema |-> "assigned", use |-> {"db"},
      rows |-> {}, next |-> 0, key |-> NoKey ]

\* No command has reached the data yet.
NoReply ==
    [ op |-> "none", kind |-> "none", args |-> <<>>, status |-> "none",
      out |-> <<>>, before |-> {} ]

\* A task that runs no command.  Besides the command's own position and locals
\* (op, kind, shape, pc, step, ssh, handle, id; for a data command its name
\* cmd, its arguments args and the answer of its lookup, local) a task records what happened
\* in the command: auth = the reply of authenticate_password, tun = the tunnel
\* it established, net = the database calls it has awaited, wrote = the
\* fields of AppState it has written, result = what it returned, target =
\* the address its backend connection goes to, verified = the calls of the
\* backend connection that returned Ok, used = the handles its database
\* calls were made on, opened = the transport connections to the key-value
\* store it has opened, failed = its database calls that returned Err.
IdleTask ==
    [ op |-> "idle", kind |-> "none", shape |-> "none", pc |-> "idle",
      step |-> 0, ssh |-> "none", auth |-> "none", handle |-> None,
      tun |-> 0, id |-> 0, result |-> "none", net |-> 0, wrote |-> {},
      target |-> <<>>, verified |-> <<>>, used |-> {}, opened |-> 0,
      failed |-> 0, cmd |-> "none", args |-> <<>>, local |-> "" ]

\* AppState as run() constructs it: every slot None, no tunnel session; no
\* command has been invoked.
Started ==
    /\ state = [ redis_client |-> None, mysql_pool |-> None, pg_pool |-> None,
                 sqlite_pool |-> None, mongo_client |-> None,
                 ssh_sessions |-> {} ]
    /\ mutex = [m \in MutexNames |-> 0]
    /\ tasks = [t \in Tasks |-> IdleTask]
    /\ tunnels = <<>>
    /\ calls = 0
    /\ changes = <<>>
    /\ reply = NoReply

\* The program starts; the run follows the data of no backend.
Init == Started /\ db = NoData

\* The error messages the commands return.
Errors ==
    { "Not connected", "Connection timed out", "SSH Connect Error",
      "SSH Auth Error", "Only password auth supported for now",
      "bind error", "driver error", "Empty command" }

\* The pcs at which a command is suspended in an await.
AwaitPcs == {"call", "ssh_connect", "ssh_auth", "bind", "backend"}

\* A command has returned with `res`.
Return(t, res) ==
    [tasks[t] EXCEPT !.pc = "done", !.result = res, !.step = 0, !.shape = "none"]

\* A command can be invoked on task t: the lowest-numbered task that runs none.
Free(t) ==
    /\ calls < MaxCalls
    /\ tasks[t].pc \in {"idle", "done"}
    /\ \A u \in Tasks : u < t => tasks[u].pc \notin {"idle", "done"}

\* ------------------------------------------------- backend commands (reads)
\* `guard.clone()`: the value the command takes out of the slot.
cloned(slot) == slot

\* A command that moved the handle out of the slot instead of cloning it.
after_take(slot) == None

\* `guard.clone()` leaves the slot as it was.
after_clone(slot) == slot

\* A guard that outlives its block: the lock stays with the task.
keep_guard(t) == t

\* The MutexGuard is dropped at the end of the block or statement that took
\* it, before the next await: the Mutex is free again.
drop_guard(t) == 0

\* `ok_or` that lets an empty slot through.
ok_or_ignore(handle) == "call"

\* `.ok_or("Not connected")?`: an empty slot returns the error at once.
ok_or(handle) == IF handle = None THEN "Not connected" ELSE "call"

\* Where a command stands after its awaited call number `step` completed:
\* ok = the call returned Ok, early = the reply takes the short path (an
\* unsupported key type, an empty command line).
after_call(shape, step, ok, early) ==
    CASE shape = "single" ->
            IF ok THEN [pc |-> "done", res |-> "Ok"]
                  ELSE [pc |-> "done", res |-> "driver error"]
      [] shape = "double" ->
            IF ~ok THEN [pc |-> "done", res |-> "driver error"]
            ELSE IF step = 1 THEN [pc |-> "call", res |-> "none"]
            ELSE [pc |-> "done", res |-> "Ok"]
      [] shape = "redis_get_value" ->
            IF ~ok THEN [pc |-> "done", res |-> "driver error"]
            ELSE IF step = 1 THEN [pc |-> "call", res |-> "none"]
            ELSE IF step = 2 /\ ~early THEN [pc |-> "call", res |-> "none"]
            ELSE [pc |-> "done", res |-> "Ok"]
      [] shape = "redis_execute_raw" ->
            IF ~ok THEN [pc |-> "done", res |-> "driver error"]
            ELSE IF step = 1 /\ early THEN [pc |-> "done", res |-> "Empty command"]
            ELSE IF step = 1 THEN [pc |-> "call", res |-> "none"]
            ELSE [pc |-> "done", res |-> "Ok"]
      [] shape = "postgres_get_rows" ->
            IF step = 1 THEN [pc |-> "call", res |-> "none"]
            ELSE IF ok THEN [pc |-> "done", res |-> "Ok"]
            ELSE [pc |-> "done", res |-> "driver error"]

\* The UI invokes a backend command.  Up to its first await the command locks
\* its slot, clones the handle out and leaves the block; with an empty slot
\* it returns there.
invoke(t, cmd) ==
    LET kind == Commands[cmd][1]
        slot == SlotOf(kind)
        h    == cloned(state[slot])
        to   == ok_or(h)
        rec  == [IdleTask EXCEPT !.op = "query", !.kind = kind, !.handle = h]
    IN  /\ Free(t)
        /\ mutex[slot] = 0
        /\ calls' = calls + 1
        /\ state' = [state EXCEPT ![slot] = after_clone(@)]
        /\ mutex' = [mutex EXCEPT ![slot] = drop_guard(t)]
        /\ tasks' = [tasks EXCEPT ![t] =
                        IF to = "call"
                        THEN [rec EXCEPT !.pc = "call", !.step = 1,
                                         !.shape = Commands[cmd][2]]
                        ELSE [rec EXCEPT !.pc = "done", !.result = to]]
        /\ UNCHANGED <<tunnels, db, changes, reply>>

\* A command that looks into the slot again for every call.
call_handle_reread(t) == state[SlotOf(tasks[t].kind)]

\* `.fetch_all(&pool)`, `query_async(&mut con)` on the connection of `client`:
\* every call of a command is made on the local that holds the clone.
call_handle(t) == tasks[t].handle

\* `client.get_multiplexed_async_connection().await`, the first awaited call
\* of connect_redis and of every redis command: redis::Client keeps no
\* connection, each call that returns Ok has opened a new one to the store.
\* The transport connections the call number `step` of a command has opened.
opens(kind, step, ok) == IF kind = "redis" /\ step = 1 /\ ok THEN 1 ELSE 0

\* An awaited database call of a backend command completes.
call_done(t) ==
    /\ tasks[t].op = "query" /\ tasks[t].pc = "call"
    /\ \E ok \in BOOLEAN, early \in BOOLEAN :
          LET to == after_call(tasks[t].shape, tasks[t].step, ok, early)
          IN  tasks' = [tasks EXCEPT ![t] =
                          IF to.pc = "call"
                          THEN [@ EXCEPT !.step = @ + 1, !.net = @ + 1,
                                         !.failed = IF ok THEN @ ELSE @ + 1,
                                         !.used = @ \cup {call_handle(t)},
                                         !.opened = @ + opens(tasks[t].kind,
                                                              tasks[t].step, ok)]
                          ELSE [Return(t, to.res) EXCEPT !.net = @ + 1,
                                         !.failed = IF ok THEN @ ELSE @ + 1,
                                         !.used = @ \cup {call_handle(t)},
                                         !.opened = @ + opens(tasks[t].kind,
                                                              tasks[t].step, ok)]]
    /\ UNCHANGED <<state, mutex, tunnels, calls, db, changes, reply>>

\* ------------------------------------------------------ establish_ssh_tunnel
\* A branch on the password with no else: without a password the tunnel is
\* set up on the unauthenticated session.
password_branch_no_else(ssh) == IF ssh = "password" THEN "ssh_auth" ELSE "bind"

\* `if let Some(pwd) = ssh_config.password { authenticate } else { return Err }`.
password_branch(ssh) == IF ssh = "password" THEN "ssh_auth" ELSE "return"

\* The replies of authenticate_password: Ok(true) when the server accepts the
\* password, Ok(false) when it rejects it, Err on a protocol or transport error.
AuthOutcomes == {"accepted", "rejected", "error"}

\* `.await.map_err(..)?;` on authenticate_password: only Err returns; the
\* boolean inside Ok is dropped, so a rejected password goes on to the bind.
after_auth(outcome) == IF outcome = "error" THEN "return" ELSE "bind"

\* An insert that keeps the entry a key already has.
insert_keep_first(sessions, key, handle) ==
    IF \E e \in sessions : e[1] = key THEN sessions
    ELSE sessions \cup {<<key, handle>>}

\* HashMap::insert under a key that differs for every session.
insert_unique_key(sessions, key, handle) == sessions \cup {<<key, handle>>}

\* `ssh_sessions.insert(key, handle)`: HashMap::insert replaces the entry of
\* the key.  A session handle is the number of its tunnel.
insert(sessions, key, handle) ==
    {e \in sessions : e[1] # key} \cup {<<key, handle>>}

\* The accept loop goes on after a failed accept.
on_accept_err_continue == "accept"

\* `else { break; }`: a failed accept ends the loop and with it the task.
on_accept_err == "ended"

\* The accept loop stops at a failed channel open.
on_channel_open_err_break == "ended"

\* `Err(e) => { eprintln!(..); continue; }`: back to accept.
on_channel_open_err == "accept"

\* A guard moved into the copy task: the lock stays taken while bytes are copied.
handle_moved_into_copy == TRUE

\* `let handle = loop_handle.lock().await;` lives in the body of the `if let`:
\* after tokio::spawn returned, the body ends and the guard is dropped.  Is the
\* session lock still taken then?
handle_after_spawn == FALSE

\* A failure path that leaves the body without dropping the guard.
handle_leaked_on_continue == TRUE

\* `continue` leaves the body too: the guard is dropped on the failure path.
handle_after_continue == FALSE

\* The byte values of the model.
ByteValues == {1, 2}

\* The remote target of the model answers every byte it reads with one byte.
Reply(b) == 3 - b

\* An accepted local connection: the TcpStream as accept returns it.
\*   st      held by the loop, owned by a copy task, or closed
\*   local   has the copy task read end-of-stream from the local stream
\*   remote  has the copy task read end-of-stream from the channel
\*   sent    the bytes the client has written
\*   fwd     the bytes the copy task has written to the channel
\*   replied how many of them the remote target has answered
\*   recv    the bytes the copy task has written back to the client
\*   fault   the network failed under this connection
NewConn ==
    [ st |-> "held", local |-> "open", remote |-> "open", sent |-> <<>>,
      fwd |-> <<>>, replied |-> 0, recv |-> <<>>, fault |-> FALSE ]

\* A connect that goes to 127.0.0.1 but keeps the port of the call.
final_addr_given_port(tun) ==
    IF tun # 0 THEN <<"127.0.0.1", "port", 0>> ELSE <<"host", "port", 0>>

\* `let (final_host, final_port) = if let Some(ssh) = sshConfig { .. }`: with
\* a tunnel, 127.0.0.1 and the local port that establish_ssh_tunnel returned,
\* which is the port of the listener of tunnel `tun`; without one (tun = 0),
\* the host and the port of the call.
final_addr(tun) ==
    IF tun # 0 THEN <<"127.0.0.1", "local_port", tun>> ELSE <<"host", "port", 0>>

\* Tunnel calls that have not yet bound their listener.
TunnelCallsInFlight ==
    Cardinality({t \in Tasks : tasks[t].pc \in {"ssh_connect", "ssh_auth", "bind"}})

\* The tunnel as establish_ssh_tunnel leaves it: the session, the listener and
\* the spawned task waiting in accept.
NewTunnel(kind, by, authed) ==
    [ kind |-> kind, by |-> by, authed |-> authed, pc |-> "accept",
      stream |-> FALSE, locked |-> FALSE, copies |-> 0, accepted |-> 0,
      log |-> <<>>, accept_failed |-> FALSE, conns |-> <<>>, closed |-> 0 ]

\* `client::connect(..).await` completes, followed by the password branch.
ssh_connect_done(t) ==
    /\ tasks[t].op = "connect" /\ tasks[t].pc = "ssh_connect"
    /\ \E ok \in BOOLEAN :
          LET to == password_branch(tasks[t].ssh)
          IN  tasks' = [tasks EXCEPT ![t] =
                  IF ~ok THEN Return(t, "SSH Connect Error")
                  ELSE IF to = "return"
                  THEN Return(t, "Only password auth supported for now")
                  ELSE [@ EXCEPT !.pc = to]]
    /\ UNCHANGED <<state, mutex, tunnels, calls, db, changes, reply>>

\* `session.authenticate_password(..).await` completes.
authenticate_password_done(t) ==
    /\ tasks[t].op = "connect" /\ tasks[t].pc = "ssh_auth"
    /\ \E outcome \in AuthOutcomes :
          tasks' = [tasks EXCEPT ![t] =
              IF after_auth(outcome) = "return"
              THEN [Return(t, "SSH Auth Error") EXCEPT !.auth = outcome]
              ELSE [@ EXCEPT !.pc = after_auth(outcome), !.auth = outcome]]
    /\ UNCHANGED <<state, mutex, tunnels, calls, db, changes, reply>>

\* `TcpListener::bind("127.0.0.1:0").await` completes.  On success the accept
\* loop is spawned and (local_port, session) returned to the connect command,
\* which inserts the session into ssh_sessions and starts the backend
\* connection to 127.0.0.1:local_port.
bind_done(t) ==
    /\ tasks[t].op = "connect" /\ tasks[t].pc = "bind"
    /\ \E ok \in BOOLEAN :
          IF ok
          THEN /\ mutex["ssh_sessions"] = 0
               /\ tunnels' = Append(tunnels,
                      NewTunnel(tasks[t].kind, tasks[t].id, tasks[t].auth = "accepted"))
               /\ state' = [state EXCEPT !.ssh_sessions =
                      insert(@, tasks[t].kind, Len(tunnels) + 1)]
               /\ mutex' = [mutex EXCEPT !["ssh_sessions"] = drop_guard(t)]
               /\ tasks' = [tasks EXCEPT ![t] =
                      [@ EXCEPT !.pc = "backend", !.step = 1, !.tun = Len(tunnels) + 1,
                                !.wrote = @ \cup {"ssh_sessions"},
                                !.target = final_addr(Len(tunnels) + 1)]]
          ELSE /\ tasks' = [tasks EXCEPT ![t] = Return(t, "bind error")]
               /\ UNCHANGED <<tunnels, state, mutex>>
    /\ UNCHANGED <<calls, db, changes, reply>>

\* --------------------------------------------------------- the accept loop
\* Local connections accepted so far by the tunnels 1..n.
RECURSIVE Accepted(_)
Accepted(n) == IF n = 0 THEN 0 ELSE tunnels[n].accepted + Accepted(n - 1)

\* A loop that hands the channel open to a task of its own and accepts again.
after_accept_spawned == "accept"

\* `if let Ok((stream, _)) = listener.accept().await { let handle =
\* loop_handle.lock().await; ..`: the loop itself goes on to the session lock.
after_accept == "lock"

\* `listener.accept().await` returns a local connection.
accept_ok(x) ==
    /\ tunnels[x].pc = "accept"
    /\ Accepted(Len(tunnels)) < MaxConns
    /\ tunnels' = [tunnels EXCEPT ![x].pc = after_accept, ![x].stream = TRUE,
                                  ![x].accepted = @ + 1,
                                  ![x].conns = Append(@, NewConn)]
    /\ UNCHANGED <<state, mutex, tasks, calls, db, changes, reply>>

\* `listener.accept().await` returns an error.
accept_err(x) ==
    /\ tunnels[x].pc = "accept"
    /\ tunnels' = [tunnels EXCEPT ![x].pc = on_accept_err,
                                  ![x].accept_failed = TRUE]
    /\ UNCHANGED <<state, mutex, tasks, calls, db, changes, reply>>

\* `loop_handle.lock().await`: the loop takes the session's async mutex.
session_lock(x) ==
    /\ tunnels[x].pc = "lock"
    /\ ~tunnels[x].locked
    /\ tunnels' = [tunnels EXCEPT ![x].pc = "open", ![x].locked = TRUE]
    /\ UNCHANGED <<state, mutex, tasks, calls, db, changes, reply>>

\* `channel_open_direct_tcpip(..).await` completes for the connection the loop
\* holds, the last one accepted.  An unauthenticated session opens no channel;
\* on an authenticated one a failure is the network's.  On Ok the copy task
\* is spawned with the stream and the channel; on Err the stream is dropped,
\* which closes it.  The guard is dropped as the iteration ends.
channel_open_done(x) ==
    /\ tunnels[x].pc = "open"
    /\ \E ok \in BOOLEAN :
          /\ ok => tunnels[x].authed
          /\ tunnels' = [tunnels EXCEPT ![x] =
                IF ok
                THEN [@ EXCEPT !.pc = "accept", !.stream = FALSE,
                               !.locked = handle_after_spawn,
                               !.copies = @ + 1, !.log = Append(@, "ok"),
                               !.conns[Len(tunnels[x].conns)].st = "copying"]
                ELSE [@ EXCEPT !.pc = on_channel_open_err, !.stream = FALSE,
                               !.locked = handle_after_continue,
                               !.log = Append(@, "fail"),
                               !.closed = @ + 1,
                               !.conns[Len(tunnels[x].conns)].st = "closed",
                               !.conns[Len(tunnels[x].conns)].fault =
                                    tunnels[x].authed]]
    /\ UNCHANGED <<state, mutex, tasks, calls, db, changes, reply>>

\* copy_bidirectional at the end-of-stream of one side: it shuts down the
\* writer of the other side and goes on copying the other direction; it
\* returns once both directions have ended.  `other` is the state of the
\* other direction.
on_eof(other) == IF other = "eof" THEN "return" ELSE "copy"

\* A copy task that keeps the stream alive after the copy returned.
stream_kept_after_copy(closed) == closed

\* The copy task ends when copy_bidirectional returns: `stream` and `channel`
\* are dropped with it, which closes them: the closed connections after it.
dropped_after_copy(closed) == closed + 1

\* The copy task has nothing more to read on one side.
Drained(conn, side) ==
    IF side = "local" THEN Len(conn.fwd) = Len(conn.sent)
                      ELSE Len(conn.recv) = conn.replied

\* The copy task of connection c reads end-of-stream on one side, after all
\* the bytes of that side.  When this ends the copy, the task ends with it.
copy_eof(x, c, side) ==
    LET conn  == tunnels[x].conns[c]
        other == IF side = "local" THEN conn.remote ELSE conn.local
    IN  /\ conn.st = "copying"
        /\ conn[side] = "open"
        /\ Drained(conn, side)
        /\ tunnels' = [tunnels EXCEPT ![x] =
              IF on_eof(other) = "return"
              THEN [@ EXCEPT !.conns[c][side] = "eof", !.conns[c].st = "closed",
                             !.copies = @ - 1, !.closed = dropped_after_copy(@)]
              ELSE [@ EXCEPT !.conns[c][side] = "eof"]]
        /\ UNCHANGED <<state, mutex, tasks, calls, db, changes, reply>>

\* `copy_bidirectional` of the copy task of connection c returns an error of
\* either side: the result is ignored and both ends are dropped.
copy_done(x, c) ==
    /\ tunnels[x].conns[c].st = "copying"
    /\ tunnels' = [tunnels EXCEPT ![x].conns[c].st = "closed",
                                  ![x].conns[c].fault = TRUE,
                                  ![x].copies = @ - 1,
                                  ![x].closed = dropped_after_copy(@)]
    /\ UNCHANGED <<state, mutex, tasks, calls, db, changes, reply>>

\* ------------------------------------------------------- bytes of the splice
\* The client writes one more byte into its connection to the local port.
client_send(x, c, b) ==
    LET conn == tunnels[x].conns[c]
    IN  /\ conn.st # "closed" /\ conn.local = "open"
        /\ Len(conn.sent) < MaxLen
        /\ tunnels' = [tunnels EXCEPT ![x].conns[c].sent = Append(@, b)]
        /\ UNCHANGED <<state, mutex, tasks, calls, db, changes, reply>>

\* copy_bidirectional, local to remote: the next byte read from the stream is
\* written to the channel.
copy_to_channel(x, c) ==
    LET conn == tunnels[x].conns[c]
    IN  /\ conn.st = "copying" /\ conn.local = "open"
        /\ Len(conn.fwd) < Len(conn.sent)
        /\ tunnels' = [tunnels EXCEPT ![x].conns[c].fwd =
                            Append(@, conn.sent[Len(conn.fwd) + 1])]
        /\ UNCHANGED <<state, mutex, tasks, calls, db, changes, reply>>

\* The remote target answers the next byte it has received.
remote_reply(x, c) ==
    LET conn == tunnels[x].conns[c]
    IN  /\ conn.st = "copying" /\ conn.remote = "open"
        /\ conn.replied < Len(conn.fwd)
        /\ tunnels' = [tunnels EXCEPT ![x].conns[c].replied = @ + 1]
        /\ UNCHANGED <<state, mutex, tasks, calls, db, changes, reply>>

\* copy_bidirectional, remote to local: the next byte read from the channel is
\* written to the stream.
copy_to_stream(x, c) ==
    LET conn == tunnels[x].conns[c]
    IN  /\ conn.st = "copying" /\ conn.remote = "open"
        /\ Len(conn.recv) < conn.replied
        /\ tunnels' = [tunnels EXCEPT ![x].conns[c].recv =
                            Append(@, Reply(conn.fwd[Len(conn.recv) + 1]))]
        /\ UNCHANGED <<state, mutex, tasks, calls, db, changes, reply>>

\* ---------------------------------------------------------- connect commands
\* Connects that store the handle without the probe.
BackendSteps_unprobed(kind) ==
    CASE kind = "redis"    -> <<"get_multiplexed_async_connection">>
      [] kind = "mysql"    -> <<"connect_with">>
      [] kind = "postgres" -> <<"connect_with">>
      [] kind = "sqlite"   -> <<"connect">>
      [] kind = "mongodb"  -> <<"parse">>

\* The awaited calls of a connect command after the tunnel, in order.
BackendSteps(kind) ==
    CASE kind = "redis"    -> <<"get_multiplexed_async_connection", "PING">>
      [] kind = "mysql"    -> <<"connect_with">>
      [] kind = "postgres" -> <<"connect_with">>
      [] kind = "sqlite"   -> <<"connect">>
      [] kind = "mongodb"  -> <<"parse", "list_database_names">>

\* The calls that run under the connect timeout: tokio::time::timeout around
\* the redis connection, acquire_timeout of the mysql and postgres pools,
\* server_selection_timeout of the mongodb probe.
TimedCalls ==
    { "get_multiplexed_async_connection", "connect_with", "list_database_names" }

\* How an awaited call of a connect can end.
BackendOutcomes(call) ==
    IF call \in TimedCalls THEN {"ok", "timeout", "err"} ELSE {"ok", "err"}

\* A tunnel carries a backend connection when its session can open channels
\* and either its loop still accepts, or a connection it accepted earlier is
\* with its copy task, which goes on copying after the loop has ended.
Forwards(x) ==
    /\ tunnels[x].authed
    /\ \/ tunnels[x].pc # "ended"
       \/ \E c \in DOMAIN tunnels[x].conns : tunnels[x].conns[c].st = "copying"

\* A timeout that resets the slot.
on_timeout_reset(old) == None

\* `.map_err(|_| "Connection timed out".to_string())?`: the command returns
\* before its slot write; the slot after it.
on_timeout(old) == old

\* A failed call that resets the slot.
on_err_reset(old) == None

\* `.map_err(|e| e.to_string())?`: the command returns before its slot
\* write; the slot after it.
on_err(old) == old

\* A slot write that keeps a handle already there.
store_if_empty(old, handle) == IF old = None THEN handle ELSE old

\* `*state.<slot>.lock().unwrap() = Some(handle)`: the old value is dropped.
store(old, handle) == handle

\* The UI invokes connect_<kind>, with or without an sshConfig.  The handle
\* the call will make, if it succeeds, is named after the call.
connect(t, kind, ssh) ==
    /\ Free(t)
    /\ ssh # "none" => Len(tunnels) + TunnelCallsInFlight < MaxTunnels
    /\ calls' = calls + 1
    /\ tasks' = [tasks EXCEPT ![t] =
                    [IdleTask EXCEPT !.op = "connect", !.kind = kind, !.ssh = ssh,
                                     !.id = calls + 1, !.step = 1,
                                     !.target = IF ssh = "none" THEN final_addr(0)
                                                                ELSE <<>>,
                                     !.pc = IF ssh = "none" THEN "backend"
                                                            ELSE "ssh_connect"]]
    /\ UNCHANGED <<state, mutex, tunnels, db, changes, reply>>

\* An awaited call of the backend connection completes.  After the last one
\* the command locks its slot, writes the new handle and returns Ok.
backend_done(t) ==
    LET steps == BackendSteps(tasks[t].kind)
        call  == steps[tasks[t].step]
        slot  == SlotOf(tasks[t].kind)
    IN  /\ tasks[t].op = "connect" /\ tasks[t].pc = "backend"
        /\ \E outcome \in BackendOutcomes(call) :
              /\ (outcome = "ok" /\ tasks[t].tun # 0 /\ call # "parse") =>
                    Forwards(tasks[t].tun)
              /\ CASE outcome = "timeout" ->
                        /\ tasks' = [tasks EXCEPT ![t] =
                                        Return(t, IF tasks[t].kind = "redis"
                                                  THEN "Connection timed out"
                                                  ELSE "driver error")]
                        /\ state' = [state EXCEPT ![slot] =
                                        IF tasks[t].kind = "redis" THEN on_timeout(@)
                                                                   ELSE on_err(@)]
                        /\ UNCHANGED mutex
                   [] outcome = "err" ->
                        /\ tasks' = [tasks EXCEPT ![t] = Return(t, "driver error")]
                        /\ state' = [state EXCEPT ![slot] = on_err(@)]
                        /\ UNCHANGED mutex
                   [] outcome = "ok" /\ tasks[t].step < Len(steps) ->
                        /\ tasks' = [tasks EXCEPT ![t].step = @ + 1,
                                                  ![t].verified = Append(@, call),
                                                  ![t].opened = @ + opens(tasks[t].kind,
                                                                         tasks[t].step, TRUE)]
                        /\ UNCHANGED <<state, mutex>>
                   [] outcome = "ok" /\ tasks[t].step = Len(steps) ->
                        /\ mutex[slot] = 0
                        /\ state' = [state EXCEPT ![slot] = store(@, tasks[t].id)]
                        /\ mutex' = [mutex EXCEPT ![slot] = drop_guard(t)]
                        /\ tasks' = [tasks EXCEPT ![t] =
                               [Return(t, "Connected") EXCEPT !.handle = tasks[t].id,
                                                              !.verified = Append(@, call),
                                                              !.opened = @ + opens(tasks[t].kind,
                                                                                  tasks[t].step, TRUE),
                                                              !.wrote = @ \cup {slot}]]
        /\ UNCHANGED <<tunnels, calls, db, changes, reply>>

\* ------------------------------------------------ relational data: the engine
\* The three relational backends.
RelKinds == {"mysql", "postgres", "sqlite"}

\* The primary-key values a caller names.
Keys == 1..MaxKey

\* The run follows the data of the backend `kind`.
Followed(kind) == db.kind = kind

\* A value bound to a placeholder, and a cell of the table: NULL or a text.
Null == [null |-> TRUE, text |-> ""]

Text(x) == [null |-> FALSE, text |-> x]

\* information_schema.columns of the table: column name and udt_name.
TypeMap == [id |-> "int4", name |-> "text"]

\* The databases of the mysql server: the one connect_mysql selected, which
\* holds the table, and another one, which has no table of that name.
Databases == {"db", "other"}

\* The greatest key of the table, 0 if it has no row.
MaxId(rows) ==
    IF rows = {} THEN 0
    ELSE CHOOSE k \in {r.id : r \in rows} : \A r \in rows : r.id <= k

\* What the backends can hold when a run begins: a table that is empty or
\* has two rows, with a key column that the caller assigns or that the
\* engine generates; or the key of the key-value store.  The counter of
\* mysql is past the keys of the table; the sequence of postgres is there
\* too if the rows came with its keys, and at its start if they came with
\* keys of their own.
Backends ==
    { [NoData EXCEPT !.kind = kind, !.schema = "assigned", !.rows = rows] :
        kind \in RelKinds,
        rows \in { {}, {[id |-> 1, name |-> Text("a")], [id |-> 2, name |-> Null]} } }
    \cup
    { b \in { [NoData EXCEPT !.kind = kind, !.schema = "generated",
                             !.rows = rows, !.next = next] :
                kind \in RelKinds,
                rows \in { {}, {[id |-> 1, name |-> Text("a")], [id |-> 2, name |-> Null]} },
                next \in 0..(MaxKey + 1) } :
        CASE b.kind = "sqlite"   -> b.next = 0
          [] b.kind = "mysql"    -> b.next = MaxId(b.rows) + 1
          [] b.kind = "postgres" -> b.next \in {1, MaxId(b.rows) + 1} }
    \cup { [NoData EXCEPT !.kind = "redis"] }

\* The program starts beside a backend that has its data already.
InitData == Started /\ db \in Backends

\* A statement on table t of the pool of `kind`, run on a connection that has
\* database d selected, reaches the table the run follows.
Seen(kind, d) == db.table = "t" /\ (kind = "mysql" => d = "db")

\* The key a text stands for, 0 if it is not the text of a key.
KeyOf(text) ==
    IF \E k \in Keys : ToString(k) = text
    THEN CHOOSE k \in Keys : ToString(k) = text
    ELSE 0

\* The value bound for column `col` of an insert, Null if the column is not
\* in the statement.
BoundFor(col, names, binds) ==
    IF \E i \in DOMAIN names : names[i] = col
    THEN binds[CHOOSE i \in DOMAIN names : names[i] = col]
    ELSE Null

\* The engine runs INSERT INTO t (names) VALUES (binds).  It refuses a column
\* the table does not have, the empty column list outside mysql, and a key
\* that is not a number of the key range or already in the table.  For a
\* key that is missing it makes one if the schema says so, and refuses the
\* row if not; for a key that is bound NULL mysql and sqlite do the same,
\* and postgres, whose serial column is NOT NULL and takes its default for
\* a missing column only, refuses the row and leaves the sequence alone.
\* The key the engine makes: the rowid of sqlite is the greatest key plus
\* one; mysql and postgres give what their counter is at.  Else it adds the
\* row.  `count` is what the statement leaves in the change counter of its
\* connection: nothing if the engine could not compile it, 0 if the engine
\* ran it and took it back, 1 if it added the row.  The counter after a
\* statement that was given the key k, or made it: the AUTO_INCREMENT
\* counter of mysql stays past every key it has seen; the sequence of
\* postgres moves only when it made the key, and does so whether the row
\* was added or not.
EngineInsert(kind, schema, rows, next, names, binds) ==
    LET id       == BoundFor("id", names, binds)
        given    == \E i \in DOMAIN names : names[i] = "id"
        GeneratedKey == IF kind = "sqlite" THEN MaxId(rows) + 1 ELSE next
        unprepared == [ok |-> FALSE, rows |-> rows, n |-> 0, next |-> next, count |-> {}]
        refused  == [unprepared EXCEPT !.count = {0}]
        CounterAfter(k, made) ==
            CASE kind = "mysql" /\ next > 0 /\ k >= next -> k + 1
              [] kind = "postgres" /\ made                -> next + 1
              [] OTHER                                    -> next
        added(k, made) ==
            IF \E r \in rows : r.id = k
            THEN [refused EXCEPT !.next = CounterAfter(k, made)]
            ELSE [ok |-> TRUE, n |-> 1, count |-> {1},
                  rows |-> rows \cup
                      {[id |-> k, name |-> BoundFor("name", names, binds)]},
                  next |-> CounterAfter(k, made)]
    IN  IF \/ \E i \in DOMAIN names : names[i] \notin DOMAIN TypeMap
           \/ (Len(names) = 0 /\ kind # "mysql")
        THEN unprepared
        ELSE IF id.null
        THEN IF schema = "generated" /\ ~(kind = "postgres" /\ given)
             THEN added(GeneratedKey, TRUE)
             ELSE refused
        ELSE IF KeyOf(id.text) = 0 THEN refused
        ELSE added(KeyOf(id.text), FALSE)

\* ------------------------------------------------- data commands, step by step
\* What a command has read when it answers: the rows of the table, or the
\* type tag the command was given and what the key holds.
Before(kind, tag) ==
    IF kind = "redis" THEN [tag |-> tag, key |-> db.key] ELSE db.rows

\* A data command is invoked.  Up to its first await it locks its slot,
\* clones the handle out and leaves the block; with an empty slot it returns
\* there.  The lock is free again when the first call is awaited.  What a
\* data command returns is kept in `reply`, and its task runs no command
\* from then on.
Begin(t, kind, cmd, args) ==
    LET slot == SlotOf(kind)
        h    == cloned(state[slot])
        to   == ok_or(h)
        rec  == [IdleTask EXCEPT !.op = "data", !.kind = kind, !.handle = h]
    IN  /\ Free(t)
        /\ Followed(kind)
        /\ mutex[slot] = 0
        /\ calls' = calls + 1
        /\ state' = [state EXCEPT ![slot] = after_clone(@)]
        /\ mutex' = [mutex EXCEPT ![slot] = drop_guard(t)]
        /\ IF to = "call"
           THEN /\ tasks' = [tasks EXCEPT ![t] =
                        [rec EXCEPT !.pc = "call", !.step = 1, !.cmd = cmd,
                                    !.args = args,
                                    !.shape = Commands[kind \o "_" \o cmd][2]]]
                /\ UNCHANGED <<db, changes, reply>>
           ELSE /\ tasks' = [tasks EXCEPT ![t] = IdleTask]
                /\ reply' = [op |-> cmd, kind |-> kind, args |-> args,
                             status |-> to, out |-> <<>>,
                             before |-> Before(kind, "")]
                /\ UNCHANGED <<db, changes>>
        /\ UNCHANGED tunnels

\* Command cmd of task t is suspended in its call number `step`.
AtCall(t, cmd, step) ==
    /\ tasks[t].op = "data" /\ tasks[t].cmd = cmd /\ tasks[t].pc = "call"
    /\ tasks[t].step = step

\* Command cmd of task t is suspended in a lookup that comes before its
\* statement: the first call of a command that awaits two.
AtLookup(t, cmd) ==
    /\ AtCall(t, cmd, 1)
    /\ tasks[t].shape \in {"double", "postgres_get_rows"}

\* Command cmd of task t is suspended in its statement: its last call.
AtStatement(t, cmd) ==
    AtCall(t, cmd, IF tasks[t].shape = "single" THEN 1 ELSE 2)

\* The call a command awaits is answered and the command awaits its next
\* one, with `local` in the local the answer went to.
Proceed(t, local) ==
    /\ tasks' = [tasks EXCEPT ![t] =
                    [@ EXCEPT !.step = @ + 1, !.net = @ + 1, !.local = local,
                              !.used = @ \cup {call_handle(t)}]]
    /\ UNCHANGED <<state, mutex, tunnels, calls, db, changes, reply>>

\* The counts sqlite3_changes() holds on the connections of the sqlite pool
\* of handle h, which is what `rows_affected()` of a statement that changes
\* no row reports: the pool has up to five connections, and each holds the
\* count of the last INSERT, UPDATE or DELETE that ran on it, 0 if none has.
sqlite3_changes(h) == IF h \in DOMAIN changes THEN changes[h] ELSE {0}

\* The call a command awaits is answered and the command returns: the
\* backend holds `data` from now.  `count` is {n} if the statement was an
\* INSERT, UPDATE or DELETE that the engine ran and that changed n rows, and
\* empty if not: in sqlite the connection the statement ran on, one that
\* held a count before or one the pool had not used, holds n from now.
Finish(t, status, out, before, data, count) ==
    /\ reply' = [op |-> tasks[t].cmd, kind |-> tasks[t].kind,
                 args |-> tasks[t].args, status |-> status, out |-> out,
                 before |-> before]
    /\ db' = data
    /\ IF tasks[t].kind = "sqlite" /\ count # {}
       THEN LET h    == call_handle(t)
                held == sqlite3_changes(h)
            IN  \E c \in held :
                   \E now \in {(held \ {c}) \cup count, held \cup count} :
                      changes' = (h :> now) @@ changes
       ELSE UNCHANGED changes
    /\ tasks' = [tasks EXCEPT ![t] = IdleTask]
    /\ UNCHANGED <<state, mutex, tunnels, calls>>

\* ------------------------------------------------------------------ insert_row
\* serde_json::Value, as far as insert_row tells values apart.
JNull == [t |-> "null", s |-> "", n |-> 0, b |-> FALSE]

JStr(x) == [t |-> "string", s |-> x, n |-> 0, b |-> FALSE]

JNum(x) == [t |-> "number", s |-> "", n |-> x, b |-> FALSE]

JBool(x) == [t |-> "bool", s |-> "", n |-> 0, b |-> x]

\* Column names a caller passes: the two of the table and one it lacks.
ColumnInputs == {"id", "name", "zz"}

\* The values a caller passes for a column.
JsonValues(col) ==
    CASE col = "id"   -> {JNull} \cup {JNum(k) : k \in Keys}
      [] col = "name" -> {JNull, JStr("a"), JBool(TRUE)}
      [] col = "zz"   -> {JStr("a")}

\* The entries <<key, value>> a caller passes.
Entries == UNION {{<<col, v>> : v \in JsonValues(col)} : col \in ColumnInputs}

\* serde_json::Map<String, Value> in its iteration order: entries with
\* distinct keys.
Maps ==
    { m \in UNION {[1..n -> Entries] : n \in 0..MaxCols} :
        \A i, j \in DOMAIN m : i # j => m[i][1] # m[j][1] }

\* `Value::to_string`: the JSON text of the value.
to_string(v) ==
    CASE v.t = "null"   -> "null"
      [] v.t = "bool"   -> IF v.b THEN "true" ELSE "false"
      [] v.t = "number" -> ToString(v.n)
      [] v.t = "string" -> "\"" \o v.s \o "\""

\* A bind that sends every value as its JSON text.
bind_json_text(v) == IF v.t = "null" THEN Null ELSE Text(to_string(v))

\* mysql_insert_row and sqlite_insert_row: `if val.is_null() { bind(None) }
\* else { bind(val.as_str().map(..).unwrap_or_else(|| val.to_string())) }`.
bind_value(v) ==
    IF v.t = "null" THEN Null
    ELSE IF v.t = "string" THEN Text(v.s) ELSE Text(to_string(v))

\* postgres_insert_row: val_str by `match v`, then `bind(None)` if is_null.
pg_bind_value(v) ==
    LET val_str == CASE v.t = "string" -> v.s
                     [] v.t = "null"   -> ""
                     [] OTHER          -> to_string(v)
    IN  IF v.t = "null" THEN Null ELSE Text(val_str)

\* The backtick of the mysql statements, which a string of this module
\* cannot hold as a character.
Backtick == "<backtick>"

\* The column name as the dialect quotes it.
quoted(kind, k) ==
    IF kind = "mysql" THEN Backtick \o k \o Backtick ELSE "\"" \o k \o "\""

\* `type_map.get(k).map(|s| s.as_str()).unwrap_or("text")`.
col_type(type_map, k) == IF k \in DOMAIN type_map THEN type_map[k] ELSE "text"

\* Placeholder number i: a question mark, or $i::type in postgres.
placeholder(kind, type_map, i, k) ==
    IF kind = "postgres" THEN "$" \o ToString(i) \o "::" \o col_type(type_map, k)
    ELSE "?"

\* `Vec<String>::join(", ")`.
RECURSIVE join(_)
join(seq) ==
    IF Len(seq) = 0 THEN ""
    ELSE IF Len(seq) = 1 THEN seq[1]
    ELSE seq[1] \o ", " \o join(Tail(seq))

\* The table name as the dialect writes it in a statement.
table_ref(kind) ==
    CASE kind = "mysql"    -> Backtick \o "t" \o Backtick
      [] kind = "postgres" -> "public.\"t\""
      [] kind = "sqlite"   -> "\"t\""

\* The statement and the bound values insert_row builds from `data`;
\* type_map is what the lookup of postgres_insert_row answered.
insert_statement(kind, type_map, data) ==
    LET cols == [i \in DOMAIN data |-> quoted(kind, data[i][1])]
        phs  == [i \in DOMAIN data |-> placeholder(kind, type_map, i, data[i][1])]
    IN  [ q |-> "INSERT INTO " \o table_ref(kind) \o " (" \o join(cols)
                    \o ") VALUES (" \o join(phs) \o ")",
          cols |-> cols,
          placeholders |-> phs,
          binds |-> [i \in DOMAIN data |->
                        IF kind = "postgres" THEN pg_bind_value(data[i][2])
                                             ELSE bind_value(data[i][2])] ]

\* <kind>_insert_row(table_name, data) is invoked.
insert_row(t, kind, data) == Begin(t, kind, "insert_row", <<data>>)

\* postgres_insert_row: the lookup of the column types is answered, with the
\* columns of the table if it exists and with no row if not; its failure
\* returns the error.
insert_row_types(t) ==
    /\ AtLookup(t, "insert_row")
    /\ \E net_ok \in BOOLEAN :
          IF net_ok
          THEN Proceed(t, IF db.table = "t" THEN "types" ELSE "no_types")
          ELSE Finish(t, "driver error", <<>>, db.rows, db, {})

\* The INSERT that insert_row built and sent is answered, and the
\* affected-row count returned.
insert_row_done(t) ==
    LET kind  == tasks[t].kind
        data  == tasks[t].args[1]
        types == IF tasks[t].local = "types" THEN TypeMap ELSE [c \in {} |-> ""]
        st    == insert_statement(kind, types, data)
        names == [i \in DOMAIN data |-> data[i][1]]
        out   == st @@ [types |-> tasks[t].local]
    IN  /\ AtStatement(t, "insert_row")
        /\ \E net_ok \in BOOLEAN, d \in db.use :
              LET res == EngineInsert(kind, db.schema, db.rows, db.next, names, st.binds)
              IN  IF ~(net_ok /\ Seen(kind, d))
                  THEN Finish(t, "driver error", out @@ [n |-> 0], db.rows, db, {})
                  ELSE IF res.ok
                  THEN Finish(t, "ok", out @@ [n |-> res.n], db.rows,
                              [db EXCEPT !.rows = res.rows, !.next = res.next],
                              res.count)
                  ELSE Finish(t, "driver error", out @@ [n |-> 0], db.rows,
                              [db EXCEPT !.next = res.next], res.count)

\* -------------------------------------------------------------------- get_rows
\* The rows of a table in every order.
Orders(rows) ==
    { p \in [1..Cardinality(rows) -> rows] :
        \A i, j \in DOMAIN p : i # j => p[i] # p[j] }

\* The rows of a table by ascending primary key.
Ascending(rows) ==
    CHOOSE p \in Orders(rows) : \A i, j \in DOMAIN p : i < j => p[i].id < p[j].id

\* LIMIT limit OFFSET offset of rows in the order p.
Page(p, limit, offset) ==
    SubSeq(p, offset + 1, IF offset + limit < Len(p) THEN offset + limit ELSE Len(p))

\* The engine runs SELECT * FROM t [ORDER BY id ASC] LIMIT .. OFFSET ..:
\* without ORDER BY it may return the rows in any order, and in another one
\* at every query.
EngineSelect(rows, order, limit, offset) ==
    { Page(p, limit, offset) :
        p \in IF order = "id" THEN {Ascending(rows)} ELSE Orders(rows) }

\* The column the statement of get_rows orders by, "none" if it has no ORDER
\* BY: postgres_get_rows orders by the primary key its lookup found, and by
\* nothing if the lookup found none or failed (`.unwrap_or(None)`);
\* mysql_get_rows and sqlite_get_rows have no ORDER BY.
order_by(kind, pk_row) == IF kind = "postgres" THEN pk_row ELSE "none"

\* The arguments of get_rows.
Limits == 1..MaxKey

Offsets == 0..MaxKey

\* <kind>_get_rows(table_name, limit, offset) is invoked.
get_rows(t, kind, limit, offset) == Begin(t, kind, "get_rows", <<limit, offset>>)

\* postgres_get_rows: the lookup of the primary key is answered, with the key
\* column of the table if it exists and with no row if not; its failure is
\* taken for no row.
get_rows_key(t) ==
    /\ AtLookup(t, "get_rows")
    /\ \E net_ok \in BOOLEAN :
          Proceed(t, IF net_ok /\ db.table = "t" THEN "id" ELSE "none")

\* The SELECT of get_rows is answered.  The table of the model has the key
\* `id`, which the statements of mysql and sqlite do not look up.
get_rows_done(t) ==
    LET kind   == tasks[t].kind
        limit  == tasks[t].args[1]
        offset == tasks[t].args[2]
        pk_row == IF kind = "postgres" THEN tasks[t].local ELSE "id"
    IN  /\ AtStatement(t, "get_rows")
        /\ \E net_ok \in BOOLEAN, d \in db.use :
              IF ~(net_ok /\ Seen(kind, d))
              THEN Finish(t, "driver error", <<>>, db.rows, db, {})
              ELSE \E page \in EngineSelect(db.rows, order_by(kind, pk_row),
                                             limit, offset) :
                      Finish(t, "ok", [rows |-> page, pk |-> pk_row], db.rows, db, {})

\* ------------------------------------------------- update_cell and delete_row
\* The rows WHERE id = pk_val selects.  pk_val is bound as a text: postgres
\* compares it with "id"::text, mysql and sqlite convert it to the type of
\* the column.
Matching(rows, pk_val) == {r \in rows : ToString(r.id) = pk_val}

\* The engine runs UPDATE t SET name = new_val WHERE id = pk_val.
EngineUpdate(rows, pk_val, new_val) ==
    [ n |-> Cardinality(Matching(rows, pk_val)),
      rows |-> (rows \ Matching(rows, pk_val)) \cup
               {[r EXCEPT !.name = Text(new_val)] : r \in Matching(rows, pk_val)} ]

\* The engine runs DELETE FROM t WHERE id = pk_val.
EngineDelete(rows, pk_val) ==
    [ n |-> Cardinality(Matching(rows, pk_val)),
      rows |-> rows \ Matching(rows, pk_val) ]

\* A command that reports a statement that changed no row as a failure.
rows_affected_or_error(n) ==
    IF n = 0 THEN [status |-> "driver error", n |-> 0] ELSE [status |-> "ok", n |-> n]

\* `Ok(result.rows_affected())`: the count is returned as it is.
rows_affected(n) == [status |-> "ok", n |-> n]

\* The arguments of update_cell and delete_row.
KeyTexts == {ToString(k) : k \in Keys}

CellTexts == {"b"}

\* <kind>_update_cell(table_name, pk_col, pk_val, col_name, new_val) is
\* invoked, for the column `name`.
update_cell(t, kind, pk_val, new_val) ==
    Begin(t, kind, "update_cell", <<pk_val, new_val>>)

\* postgres_update_cell: the lookup of the udt_name of the column is
\* answered: text for the column `name`, and the same `unwrap_or_else`
\* default if the lookup finds no row; its failure returns the error.
update_cell_type(t) ==
    /\ AtLookup(t, "update_cell")
    /\ \E net_ok \in BOOLEAN :
          IF net_ok THEN Proceed(t, "text")
          ELSE Finish(t, "driver error", [n |-> 0, fault |-> TRUE], db.rows, db, {})

\* The UPDATE of update_cell is answered.
update_cell_done(t) ==
    LET kind == tasks[t].kind
        res  == EngineUpdate(db.rows, tasks[t].args[1], tasks[t].args[2])
        ret  == rows_affected(res.n)
    IN  /\ AtStatement(t, "update_cell")
        /\ \E net_ok \in BOOLEAN, d \in db.use :
              IF net_ok /\ Seen(kind, d)
              THEN Finish(t, ret.status, [n |-> ret.n, fault |-> FALSE], db.rows,
                          [db EXCEPT !.rows = res.rows], {res.n})
              ELSE Finish(t, "driver error", [n |-> 0, fault |-> TRUE], db.rows, db, {})

\* <kind>_delete_row(table_name, pk_col, pk_val) is invoked.
delete_row(t, kind, pk_val) == Begin(t, kind, "delete_row", <<pk_val>>)

\* The DELETE of delete_row is answered.
delete_row_done(t) ==
    LET kind == tasks[t].kind
        res  == EngineDelete(db.rows, tasks[t].args[1])
        ret  == rows_affected(res.n)
    IN  /\ AtStatement(t, "delete_row")
        /\ \E net_ok \in BOOLEAN, d \in db.use :
              IF net_ok /\ Seen(kind, d)
              THEN Finish(t, ret.status, [n |-> ret.n, fault |-> FALSE], db.rows,
                          [db EXCEPT !.rows = res.rows], {res.n})
              ELSE Finish(t, "driver error", [n |-> 0, fault |-> TRUE], db.rows, db, {})

\* ------------------------------------- drop_table, rename_table, use_database
\* The table names a caller passes: the one of the table and another one.
TableArgs == {"t", "u"}

\* <kind>_drop_table(table_name) is invoked.
drop_table(t, kind, table_name) == Begin(t, kind, "drop_table", <<table_name>>)

\* The DROP TABLE is answered: the engine drops the table of that name and
\* refuses a name no table has.
drop_table_done(t) ==
    LET kind == tasks[t].kind
    IN  /\ AtStatement(t, "drop_table")
        /\ \E net_ok \in BOOLEAN, d \in db.use :
              IF /\ net_ok /\ db.table = tasks[t].args[1]
                 /\ (kind = "mysql" => d = "db")
              THEN Finish(t, "ok", <<>>, db.rows,
                          [db EXCEPT !.table = "none", !.rows = {}], {})
              ELSE Finish(t, "driver error", <<>>, db.rows, db, {})

\* <kind>_rename_table(old_name, new_name) is invoked.
rename_table(t, kind, old_name, new_name) ==
    Begin(t, kind, "rename_table", <<old_name, new_name>>)

\* The ALTER TABLE .. RENAME TO, RENAME TABLE of mysql, is answered: the
\* table of the old name has the new one; the engine refuses an old name no
\* table has.
rename_table_done(t) ==
    LET kind == tasks[t].kind
    IN  /\ AtStatement(t, "rename_table")
        /\ \E net_ok \in BOOLEAN, d \in db.use :
              IF /\ net_ok /\ db.table = tasks[t].args[1]
                 /\ (kind = "mysql" => d = "db")
              THEN Finish(t, "ok", <<>>, db.rows,
                          [db EXCEPT !.table = tasks[t].args[2]], {})
              ELSE Finish(t, "driver error", <<>>, db.rows, db, {})

\* mysql_use_database(database) is invoked.
use_database(t, database) == Begin(t, "mysql", "use_database", <<database>>)

\* The USE is answered.  It has run on one connection of the pool, which has
\* the database selected from now; the pool hands every later statement to
\* any of its connections, of which it may have that one only.
use_database_done(t) ==
    /\ AtStatement(t, "use_database")
    /\ \E net_ok \in BOOLEAN :
          IF net_ok
          THEN \E use \in {{tasks[t].args[1]}, db.use \cup {tasks[t].args[1]}} :
                  Finish(t, "ok", <<>>, db.rows, [db EXCEPT !.use = use], {})
          ELSE Finish(t, "driver error", <<>>, db.rows, db, {})

\* ----------------------------------------------------------------- execute_raw
\* A statement is the sequence of its characters.
LowerLetters ==
    <<"a", "b", "c", "d", "e", "f", "g", "h", "i", "j", "k", "l", "m">> \o
    <<"n", "o", "p", "q", "r", "s", "t", "u", "v", "w", "x", "y", "z">>

UpperLetters ==
    <<"A", "B", "C", "D", "E", "F", "G", "H", "I", "J", "K", "L", "M">> \o
    <<"N", "O", "P", "Q", "R", "S", "T", "U", "V", "W", "X", "Y", "Z">>

White == {" ", "\n"}

\* The words the statements of the model begin with, in lower case.
Words ==
    { <<"s", "e", "l", "e", "c", "t">>,
      <<"s", "h", "o", "w">>,
      <<"d", "e", "s", "c", "r", "i", "b", "e">>,
      <<"d", "e", "s", "c">>,
      <<"e", "x", "p", "l", "a", "i", "n">>,
      <<"p", "r", "a", "g", "m", "a">>,
      <<"d", "e", "l", "e", "t", "e">>,
      <<"w", "i", "t", "h">> }

\* What follows the first word.  After select: "* from t".  After explain:
\* "select * from t".  After show: "tables" and "all".  After delete: "from
\* t" and "from t where id = 1".  After with: "x as (select 1) " and then a
\* select or one of the deletes.  After describe, desc and pragma: "t".
After ==
    LET from_t == <<"f", "r", "o", "m", " ", "t">>
        where  == <<" ", "w", "h", "e", "r", "e", " ", "i", "d", " ", "=", " ", "1">>
        with_x == <<"x", " ", "a", "s", " ", "(", "s", "e", "l", "e", "c", "t", " ", "1", ")", " ">>
        delete == <<"d", "e", "l", "e", "t", "e", " ">>
    IN  [ all_from_t        |-> <<"*", " ">> \o from_t,
          select_all_from_t |-> <<"s", "e", "l", "e", "c", "t", " ", "*", " ">> \o from_t,
          tables            |-> <<"t", "a", "b", "l", "e", "s">>,
          all               |-> <<"a", "l", "l">>,
          from_t            |-> from_t,
          from_t_where      |-> from_t \o where,
          with_select       |-> with_x \o <<"s", "e", "l", "e", "c", "t", " ", "1">>,
          with_delete       |-> with_x \o delete \o from_t,
          with_delete_where |-> with_x \o delete \o from_t \o where,
          table             |-> <<"t">> ]

\* The statements a caller passes: white space, a word, and what follows it.
Statements ==
    LET Tails(word) ==
            CASE word = <<"s", "e", "l", "e", "c", "t">> -> {After.all_from_t}
              [] word = <<"e", "x", "p", "l", "a", "i", "n">> -> {After.select_all_from_t}
              [] word = <<"s", "h", "o", "w">> -> {After.tables, After.all}
              [] word = <<"d", "e", "l", "e", "t", "e">> -> {After.from_t, After.from_t_where}
              [] word = <<"w", "i", "t", "h">> ->
                    {After.with_select, After.with_delete, After.with_delete_where}
              [] OTHER -> {After.table}
    IN  UNION { { [pad |-> pad, word |-> word, mode |-> mode, tail |-> tail] :
                    pad \in {<<>>, <<"\n", " ">>},
                    mode \in {"lower", "upper", "title"},
                    tail \in Tails(word) } : word \in Words }

\* The text of a statement: its word in lower case, in upper case, or with a
\* capital first letter.
Sql(stmt) ==
    LET Cased == [ i \in DOMAIN stmt.word |->
                    IF stmt.mode = "upper" \/ (stmt.mode = "title" /\ i = 1)
                    THEN UpperLetters[CHOOSE j \in DOMAIN LowerLetters :
                                            LowerLetters[j] = stmt.word[i]]
                    ELSE stmt.word[i] ]
    IN  stmt.pad \o Cased \o <<" ">> \o stmt.tail \o <<" ">>

\* `str::trim`: without the white space at both ends.
RECURSIVE trim(_)
trim(sql) ==
    IF Len(sql) = 0 THEN sql
    ELSE IF sql[1] \in White THEN trim(Tail(sql))
    ELSE IF sql[Len(sql)] \in White THEN trim(SubSeq(sql, 1, Len(sql) - 1))
    ELSE sql

\* `str::to_uppercase`.
to_uppercase(sql) ==
    [ i \in DOMAIN sql |->
        IF \E j \in DOMAIN LowerLetters : LowerLetters[j] = sql[i]
        THEN UpperLetters[CHOOSE j \in DOMAIN LowerLetters : LowerLetters[j] = sql[i]]
        ELSE sql[i] ]

\* `str::starts_with`.
starts_with(sql, prefix) ==
    Len(prefix) <= Len(sql) /\ SubSeq(sql, 1, Len(prefix)) = prefix

\* The keywords <kind>_execute_raw tests for.
QueryKeywords(kind) ==
    CASE kind = "sqlite" ->
            { <<"S", "E", "L", "E", "C", "T">>,
              <<"P", "R", "A", "G", "M", "A">>,
              <<"E", "X", "P", "L", "A", "I", "N">> }
      [] kind = "mysql" ->
            { <<"S", "E", "L", "E", "C", "T">>,
              <<"S", "H", "O", "W">>,
              <<"D", "E", "S", "C", "R", "I", "B", "E">>,
              <<"E", "X", "P", "L", "A", "I", "N">> }
      [] kind = "postgres" ->
            { <<"S", "E", "L", "E", "C", "T">>,
              <<"S", "H", "O", "W">>,
              <<"E", "X", "P", "L", "A", "I", "N">> }

\* `let is_query = sql.trim().to_uppercase().starts_with(..) || ..`.
is_query(kind, sql) ==
    \E kw \in QueryKeywords(kind) : starts_with(to_uppercase(trim(sql)), kw)

\* The statements the engine of a dialect accepts, by their first word.
EngineWords(kind) ==
    CASE kind = "sqlite" ->
            { <<"s", "e", "l", "e", "c", "t">>, <<"e", "x", "p", "l", "a", "i", "n">>, <<"p", "r", "a", "g", "m", "a">>,
              <<"d", "e", "l", "e", "t", "e">>, <<"w", "i", "t", "h">> }
      [] kind = "mysql" ->
            { <<"s", "e", "l", "e", "c", "t">>, <<"s", "h", "o", "w">>, <<"d", "e", "s", "c", "r", "i", "b", "e">>,
              <<"d", "e", "s", "c">>, <<"e", "x", "p", "l", "a", "i", "n">>, <<"d", "e", "l", "e", "t", "e">>, <<"w", "i", "t", "h">> }
      [] kind = "postgres" ->
            { <<"s", "e", "l", "e", "c", "t">>, <<"s", "h", "o", "w">>, <<"e", "x", "p", "l", "a", "i", "n">>,
              <<"d", "e", "l", "e", "t", "e">>, <<"w", "i", "t", "h">> }

\* The engine runs the whole statement, and the driver reports the count
\* of it.  The engine refuses a first word that is not of its dialect and a
\* show of what it does not have: mysql shows tables, postgres shows all
\* its parameters.  It refuses a table it cannot see; the statements that
\* need none are "with x as (select 1) select 1", the shows, and "pragma
\* t", which sqlite takes for a pragma it does not know and answers with no
\* row.  Else it deletes the rows the statement says, all of them, those of
\* key 1, or none.  `rows_affected()` of a statement that deletes is the
\* number of rows it deleted.  Of a statement that changes no row it is,
\* in sqlite, `held`: what sqlite3_changes() of the connection holds from
\* an earlier statement; in postgres the number at the end of the command
\* tag, which for "with x as (select 1) select 1" is the one row selected;
\* in mysql 0.
EngineRaw(kind, rows, seen, held, stmt) ==
    LET refers_to_table ==
            /\ stmt.tail \notin {After.with_select, After.tables, After.all}
            /\ stmt.word # <<"p", "r", "a", "g", "m", "a">>
        shown == IF kind = "mysql" THEN After.tables ELSE After.all
        deletes == stmt.tail \in {After.from_t, After.with_delete,
                                  After.from_t_where, After.with_delete_where}
        Deleted ==
            CASE stmt.tail \in {After.from_t, After.with_delete} -> rows
              [] stmt.tail \in {After.from_t_where, After.with_delete_where} ->
                    {r \in rows : r.id = 1}
              [] OTHER -> {}
    IN  IF \/ stmt.word \notin EngineWords(kind)
           \/ (stmt.word = <<"s", "h", "o", "w">> /\ stmt.tail # shown)
           \/ (refers_to_table /\ ~seen)
        THEN [ok |-> FALSE, rows |-> rows, n |-> 0, count |-> {}]
        ELSE IF deletes
        THEN [ok |-> TRUE, rows |-> rows \ Deleted, n |-> Cardinality(Deleted),
              count |-> {Cardinality(Deleted)}]
        ELSE [ok |-> TRUE, rows |-> rows, count |-> {},
              n |-> CASE kind = "sqlite" -> held
                      [] kind = "postgres" /\ stmt.tail = After.with_select -> 1
                      [] OTHER -> 0]

\* <kind>_execute_raw(sql) is invoked.
execute_raw(t, kind, stmt) == Begin(t, kind, "execute_raw", <<stmt>>)

\* The statement of execute_raw is answered: a query was fetched and its rows
\* are returned, any other statement was executed and `rows_affected()` of
\* its result is reported.
execute_raw_done(t) ==
    LET kind == tasks[t].kind
        stmt == tasks[t].args[1]
    IN  /\ AtStatement(t, "execute_raw")
        /\ \E net_ok \in BOOLEAN, d \in db.use, held \in sqlite3_changes(call_handle(t)) :
              LET res == EngineRaw(kind, db.rows, Seen(kind, d), held, stmt)
              IN  IF ~(net_ok /\ res.ok)
                  THEN Finish(t, "driver error", <<>>, db.rows, db, {})
                  ELSE IF is_query(kind, Sql(stmt))
                  THEN Finish(t, "ok", [shape |-> "rows", n |-> 0, text |-> ""],
                              db.rows, [db EXCEPT !.rows = res.rows], res.count)
                  ELSE Finish(t, "ok",
                              [shape |-> "message", n |-> res.n,
                               text |-> "Success: " \o ToString(res.n) \o " rows affected"],
                              db.rows, [db EXCEPT !.rows = res.rows], res.count)

\* ------------------------------------------------------------ get_primary_key
\* The catalog of the database: for each table its columns in declared order,
\* each with its position in the primary key of the table, 0 if it is not
\* part of the key.  A table without a key, one with a single-column key, and
\* two with a key of two columns, declared in either order.  These tables
\* are other tables than the one whose rows the run follows.
TableInfo ==
    [ plain  |-> << [name |-> "a", pk |-> 0], [name |-> "b", pk |-> 0] >>,
      single |-> << [name |-> "a", pk |-> 0], [name |-> "b", pk |-> 1] >>,
      pair   |-> << [name |-> "a", pk |-> 1], [name |-> "b", pk |-> 2] >>,
      riap   |-> << [name |-> "a", pk |-> 2], [name |-> "b", pk |-> 1] >> ]

\* KEY_COLUMN_USAGE of the primary key constraint of a table: one row per
\* column of the key.
KeyColumnUsage(table_name) ==
    { TableInfo[table_name][i].name : i \in
        { j \in DOMAIN TableInfo[table_name] : TableInfo[table_name][j].pk > 0 } }

\* sqlite_get_primary_key: `for row in rows { if pk > 0 { return
\* Ok(Some(name)) } } Ok(None)` over PRAGMA table_info: the first column, in
\* declared order, that is part of the key.
sqlite_primary_key(table_name) ==
    LET rows == TableInfo[table_name]
        hits == { i \in DOMAIN rows : rows[i].pk > 0 }
    IN  IF hits = {} THEN {"none"}
        ELSE { rows[CHOOSE i \in hits : \A j \in hits : i <= j].name }

\* mysql_get_primary_key and postgres_get_primary_key: the rows of the key's
\* columns with LIMIT 1 and no ORDER BY, fetch_optional: any one row of
\* them, none if there is no row.
limit_one_primary_key(table_name) ==
    IF KeyColumnUsage(table_name) = {} THEN {"none"}
    ELSE KeyColumnUsage(table_name)

\* The names the command of a dialect can return for a table.
primary_key(kind, table_name) ==
    IF kind = "sqlite" THEN sqlite_primary_key(table_name)
    ELSE limit_one_primary_key(table_name)

\* <kind>_get_primary_key(table_name) is invoked.
get_primary_key(t, kind, table_name) ==
    Begin(t, kind, "get_primary_key", <<table_name>>)

\* The catalog query of get_primary_key is answered.
get_primary_key_done(t) ==
    /\ AtStatement(t, "get_primary_key")
    /\ \E net_ok \in BOOLEAN :
          IF ~net_ok
          THEN Finish(t, "driver error", "none", db.rows, db, {})
          ELSE \E name \in primary_key(tasks[t].kind, tasks[t].args[1]) :
                  Finish(t, "ok", name, db.rows, db, {})

\* ------------------------------------------------------------- redis_get_value
\* What the key of the server can hold: a string; a list and a sorted set,
\* both as their members in index order; a set; a hash as its pairs
\* <<field, value>>; a stream, which has a type tag and no reader here.
KeyValues ==
  LET Members == {"a", "b"} IN
    {[NoKey EXCEPT !.type = "string", !.str = m] : m \in Members}
    \cup {[NoKey EXCEPT !.type = t, !.list = l] :
            t \in {"list", "zset"}, l \in Orders(Members) \cup {<<"b">>}}
    \cup {[NoKey EXCEPT !.type = "set", !.set = m] : m \in {Members, {"b"}}}
    \cup {[NoKey EXCEPT !.type = "hash", !.hash = h] :
            h \in {{<<"f", "a">>}, {<<"f", "b">>, <<"g", "a">>}}}
    \cup {[NoKey EXCEPT !.type = "stream"]}

\* A client of the server, this program through redis_set_value,
\* redis_del_key or redis_execute_raw, or another one, has written or
\* deleted the key.
key_written(value) ==
    /\ Followed("redis")
    /\ db.key # value
    /\ db' = [db EXCEPT !.key = value]
    /\ UNCHANGED <<state, mutex, tasks, tunnels, calls, changes, reply>>

\* serde_json::to_string of a Vec<String>.
RECURSIVE json_items(_)
json_items(seq) ==
    IF Len(seq) = 0 THEN ""
    ELSE IF Len(seq) = 1 THEN seq[1]
    ELSE seq[1] \o "," \o json_items(Tail(seq))

json_array(val) ==
    "[" \o json_items([i \in DOMAIN val |-> to_string(JStr(val[i]))]) \o "]"

\* serde_json::to_string of a HashMap<String, String> iterated in the order
\* of pairs.
json_object(pairs) ==
    "{" \o json_items([i \in DOMAIN pairs |->
                         to_string(JStr(pairs[i][1])) \o ":" \o
                         to_string(JStr(pairs[i][2]))]) \o "}"

\* A match without the arm of the sorted set.
read_of_no_zset(key_type) ==
    CASE key_type = "string" -> "GET"
      [] key_type = "hash"   -> "HGETALL"
      [] key_type = "list"   -> "LRANGE"
      [] key_type = "set"    -> "SMEMBERS"
      [] OTHER               -> "none"

\* `match key_type.as_str()`: the command that reads a key of the type.
read_of(key_type) ==
    CASE key_type = "string" -> "GET"
      [] key_type = "hash"   -> "HGETALL"
      [] key_type = "list"   -> "LRANGE"
      [] key_type = "set"    -> "SMEMBERS"
      [] key_type = "zset"   -> "ZRANGE"
      [] OTHER               -> "none"

\* The type of key a read command reads.
type_read_by(read) ==
    CASE read = "GET"      -> "string"
      [] read = "HGETALL"  -> "hash"
      [] read = "LRANGE"   -> "list"
      [] read = "SMEMBERS" -> "set"
      [] read = "ZRANGE"   -> "zset"

\* The texts the command can make of the server's answer to `read`, sent
\* while the key holds `key`; none if it makes an error of it.  The server
\* refuses a key of another type (WRONGTYPE) and answers as for an empty
\* value when there is no key: nil to GET, which does not convert to a
\* String, and no member to the other reads.  SMEMBERS answers in an order of
\* the server's choice, and the HashMap of HGETALL iterates in an order of
\* its own.
read_reply(read, key) ==
    IF key.type \notin {type_read_by(read), "none"} THEN {}
    ELSE CASE read = "GET" -> IF key.type = "none" THEN {} ELSE {key.str}
           [] read = "HGETALL" -> {json_object(pairs) : pairs \in Orders(key.hash)}
           [] read \in {"LRANGE", "ZRANGE"} -> {json_array(key.list)}
           [] read = "SMEMBERS" -> {json_array(val) : val \in Orders(key.set)}

\* redis_get_value(key) is invoked.
redis_get_value(t) == Begin(t, "redis", "get_value", <<>>)

\* `client.get_multiplexed_async_connection().await` of redis_get_value is
\* answered.
get_value_connection(t) ==
    /\ AtCall(t, "get_value", 1)
    /\ \E net_ok \in BOOLEAN :
          IF net_ok THEN Proceed(t, "")
          ELSE Finish(t, "driver error", "", Before("redis", ""), db, {})

\* TYPE is answered with the type of what the key holds now.  A type with no
\* read command is answered to the caller at once.
get_value_type(t) ==
    LET key_type == db.key.type
    IN  /\ AtCall(t, "get_value", 2)
        /\ \E net_ok \in BOOLEAN :
              IF ~net_ok
              THEN Finish(t, "driver error", "", Before("redis", ""), db, {})
              ELSE IF read_of(key_type) = "none"
              THEN Finish(t, "ok", "Unsupported type: " \o key_type,
                          Before("redis", key_type), db, {})
              ELSE Proceed(t, key_type)

\* The read command of the type that TYPE answered is answered, for what the
\* key holds now.
get_value_read(t) ==
    LET key_type == tasks[t].local
        texts    == read_reply(read_of(key_type), db.key)
    IN  /\ AtCall(t, "get_value", 3)
        /\ \/ Finish(t, "driver error", "", Before("redis", key_type), db, {})
           \/ \E text \in texts :
                 Finish(t, "ok", text, Before("redis", key_type), db, {})

\* ------------------------------------------------------- marshalling a value
\* The places where a column value is turned into a JSON value.
\* postgres_get_rows has none: it lets the server build the JSON text.
Sites ==
    { "sqlite_get_rows", "sqlite_execute_raw", "mysql_get_rows",
      "mysql_execute_raw", "postgres_execute_raw" }

\* Type names the driver of a site reports, some of each arm of its match.
TypeNames(site) ==
    CASE site \in {"sqlite_get_rows", "sqlite_execute_raw"} ->
            {"INTEGER", "REAL", "BOOLEAN", "TEXT", "BLOB"}
      [] site \in {"mysql_get_rows", "mysql_execute_raw"} ->
            {"INT", "BIGINT", "DOUBLE", "DECIMAL", "BOOLEAN", "BLOB",
             "VARCHAR", "DATETIME"}
      [] site = "postgres_execute_raw" ->
            {"INT4", "INT8", "FLOAT8", "NUMERIC", "BOOL", "TEXT", "TIMESTAMPTZ"}

\* The Rust types a site asks the driver to decode a value as.
Decoders == {"i64", "f64", "bool", "bytes", "string"}

\* The arm of `match type_name` a type name falls into.
arm(site, type_name) ==
    CASE site \in {"sqlite_get_rows", "sqlite_execute_raw"} ->
            CASE type_name = "INTEGER" -> "int"
              [] type_name = "REAL"    -> "float"
              [] type_name = "BOOLEAN" -> "bool"
              [] OTHER                 -> "other"
      [] site \in {"mysql_get_rows", "mysql_execute_raw"} ->
            CASE type_name \in {"TINYINT", "SMALLINT", "INT", "BIGINT"} -> "int"
              [] type_name \in {"FLOAT", "DOUBLE", "DECIMAL"} -> "float"
              [] type_name = "BOOLEAN" -> "bool"
              [] /\ site = "mysql_get_rows"
                 /\ type_name \in {"BINARY", "VARBINARY", "BLOB", "TINYBLOB",
                                   "MEDIUMBLOB", "LONGBLOB"} -> "binary"
              [] OTHER -> "other"
      [] site = "postgres_execute_raw" ->
            CASE type_name \in {"INT2", "INT4", "INT8"} -> "int"
              [] type_name \in {"FLOAT4", "FLOAT8", "NUMERIC"} -> "float"
              [] type_name = "BOOL" -> "bool"
              [] OTHER -> "other"

\* The typed decoder of an arm and the JSON value it makes; `finite` tells
\* whether the f64 the decoder returns is a finite number:
\* `serde_json::Value::from(v)` of an f64, `json!(v)`, is a number if v is
\* finite and Value::Null for an infinity and for NaN.
typed(a, finite) ==
    CASE a = "int"   -> [as |-> "i64",  value |-> "Int64"]
      [] a = "float" -> [as |-> "f64",  value |-> IF finite THEN "Float64" ELSE "Null"]
      [] a = "bool"  -> [as |-> "bool", value |-> "Bool"]
      [] OTHER       -> [as |-> "none", value |-> "none"]

\* `let v: T = row.get(..)`: Row::get panics when the value does not decode.
get(as, value, ok) == IF as \in ok THEN value ELSE "panic"

\* The chain `if let Ok(..) = row.try_get::<T, _>(..) {..} else if ..` over
\* the decoders of `chain`, each <<decoder, value>>, ending in Value::Null.
RECURSIVE try_get(_, _)
try_get(chain, ok) ==
    IF Len(chain) = 0 THEN "Null"
    ELSE IF chain[1][1] \in ok THEN chain[1][2]
    ELSE try_get(Tail(chain), ok)

\* The decoders mysql_get_rows tries in an arm, in order.
mysql_get_rows_chain(a, finite) ==
    CASE a \in {"int", "float"} ->
            << <<typed(a, finite).as, typed(a, finite).value>>,
               <<"bytes", "String">>, <<"string", "String">> >>
      [] a = "bool"   -> << <<"bool", "Bool">> >>
      [] a = "binary" -> << <<"bytes", "String">> >>
      [] OTHER        -> << <<"bytes", "String">>, <<"string", "String">> >>

\* The JSON value a site makes of a column value: `null` = the raw value is
\* NULL, `ok` = the decoders that return Ok for it, `finite` = the f64 it
\* decodes as, if it does, is a finite number.  "panic" is the command ending
\* in a panic.
marshal(site, type_name, null, ok, finite) ==
    LET a == arm(site, type_name)
        v == typed(a, finite)
    IN  IF null THEN "Null"
        ELSE IF site \in {"sqlite_get_rows", "sqlite_execute_raw"}
        THEN IF a = "other" THEN get("string", "String", ok)
             ELSE get(v.as, v.value, ok)
        ELSE IF site = "mysql_get_rows"
        THEN try_get(mysql_get_rows_chain(a, finite), ok)
        ELSE IF a = "other" THEN get("string", "String", ok)
             ELSE IF v.as \in ok THEN v.value
             ELSE get("string", "String", ok)

\* A row with a column of the type is marshalled at the site.  A NULL
\* decodes as nothing, and only a value that decodes as f64 can be an
\* infinity or NaN.
marshal_value(site, type_name, null, ok, finite) ==
    /\ null => ok = {}
    /\ "f64" \notin ok => finite
    /\ reply' = [op |-> "marshal", kind |-> site,
                 args |-> <<type_name, null, ok, finite>>, status |-> "ok",
                 out |-> marshal(site, type_name, null, ok, finite),
                 before |-> {}]
    /\ UNCHANGED <<state, mutex, tasks, tunnels, calls, db, changes>>

\* ------------------------------------------------------------ specification
\* The registry and the commands: the tunnels' accept loops stay in accept.
Next ==
    \/ \E t \in Tasks, cmd \in DOMAIN Commands : invoke(t, cmd)
    \/ \E t \in Tasks : call_done(t)
    \/ \E t \in Tasks, kind \in Kinds : \E ssh \in SshInputs(kind) : connect(t, kind, ssh)
    \/ \E t \in Tasks : ssh_connect_done(t)
    \/ \E t \in Tasks : authenticate_password_done(t)
    \/ \E t \in Tasks : bind_done(t)
    \/ \E t \in Tasks : backend_done(t)

Spec == Init /\ [][Next]_vars

\* One tunnelled connect and the accept loop of its tunnel, step by step.
NextTunnel ==
    \/ \E t \in Tasks, kind \in TunnelKinds :
          /\ calls < MaxLoopCalls
          /\ connect(t, kind, "password")
    \/ \E t \in Tasks : ssh_connect_done(t)
    \/ \E t \in Tasks : authenticate_password_done(t)
    \/ \E t \in Tasks : bind_done(t)
    \/ \E t \in Tasks : backend_done(t)
    \/ \E x \in DOMAIN tunnels : accept_ok(x)
    \/ \E x \in DOMAIN tunnels : accept_err(x)
    \/ \E x \in DOMAIN tunnels : session_lock(x)
    \/ \E x \in DOMAIN tunnels : channel_open_done(x)
    \/ \E x \in DOMAIN tunnels : \E c \in DOMAIN tunnels[x].conns :
          \E side \in {"local", "remote"} : copy_eof(x, c, side)
    \/ \E x \in DOMAIN tunnels : \E c \in DOMAIN tunnels[x].conns : copy_done(x, c)

SpecTunnel == Init /\ [][NextTunnel]_vars

\* One tunnelled connect, the accept loop of its tunnel and the bytes that
\* pass through the connections it forwards.
NextSplice ==
    \/ \E t \in Tasks, kind \in TunnelKinds :
          /\ calls < MaxLoopCalls
          /\ connect(t, kind, "password")
    \/ \E t \in Tasks : ssh_connect_done(t)
    \/ \E t \in Tasks : authenticate_password_done(t)
    \/ \E t \in Tasks : bind_done(t)
    \/ \E x \in DOMAIN tunnels :
          /\ Accepted(Len(tunnels)) < MaxSpliceConns
          /\ accept_ok(x)
    \/ \E x \in DOMAIN tunnels : session_lock(x)
    \/ \E x \in DOMAIN tunnels : channel_open_done(x)
    \/ \E x \in DOMAIN tunnels : \E c \in DOMAIN tunnels[x].conns :
          \E b \in ByteValues : client_send(x, c, b)
    \/ \E x \in DOMAIN tunnels : \E c \in DOMAIN tunnels[x].conns : copy_to_channel(x, c)
    \/ \E x \in DOMAIN tunnels : \E c \in DOMAIN tunnels[x].conns : remote_reply(x, c)
    \/ \E x \in DOMAIN tunnels : \E c \in DOMAIN tunnels[x].conns : copy_to_stream(x, c)
    \/ \E x \in DOMAIN tunnels : \E c \in DOMAIN tunnels[x].conns :
          \E side \in {"local", "remote"} : copy_eof(x, c, side)
    \/ \E x \in DOMAIN tunnels : \E c \in DOMAIN tunnels[x].conns : copy_done(x, c)

SpecSplice == Init /\ [][NextSplice]_vars

\* One direct connect to the backend whose data the run follows, and the
\* data commands of that backend but execute_raw, each awaited call a step
\* of its own.
NextData ==
    \/ \E t \in Tasks, kind \in Kinds :
          /\ calls < MaxLoopCalls
          /\ Followed(kind)
          /\ connect(t, kind, "none")
    \/ \E t \in Tasks : backend_done(t)
    \/ \E t \in Tasks, kind \in RelKinds, data \in Maps : insert_row(t, kind, data)
    \/ \E t \in Tasks : insert_row_types(t)
    \/ \E t \in Tasks : insert_row_done(t)
    \/ \E t \in Tasks, kind \in RelKinds, limit \in Limits, offset \in Offsets :
          get_rows(t, kind, limit, offset)
    \/ \E t \in Tasks : get_rows_key(t)
    \/ \E t \in Tasks : get_rows_done(t)
    \/ \E t \in Tasks, kind \in RelKinds, pk_val \in KeyTexts, new_val \in CellTexts :
          update_cell(t, kind, pk_val, new_val)
    \/ \E t \in Tasks : update_cell_type(t)
    \/ \E t \in Tasks : update_cell_done(t)
    \/ \E t \in Tasks, kind \in RelKinds, pk_val \in KeyTexts :
          delete_row(t, kind, pk_val)
    \/ \E t \in Tasks : delete_row_done(t)
    \/ \E t \in Tasks, kind \in RelKinds, table_name \in TableArgs :
          drop_table(t, kind, table_name)
    \/ \E t \in Tasks : drop_table_done(t)
    \/ \E t \in Tasks, kind \in RelKinds, old_name \in TableArgs :
          \E new_name \in TableArgs \ {old_name} :
             rename_table(t, kind, old_name, new_name)
    \/ \E t \in Tasks : rename_table_done(t)
    \/ \E t \in Tasks, database \in Databases : use_database(t, database)
    \/ \E t \in Tasks : use_database_done(t)
    \/ \E t \in Tasks, kind \in RelKinds, table_name \in DOMAIN TableInfo :
          get_primary_key(t, kind, table_name)
    \/ \E t \in Tasks : get_primary_key_done(t)
    \/ \E value \in KeyValues \cup {NoKey} : key_written(value)
    \/ \E t \in Tasks : redis_get_value(t)
    \/ \E t \in Tasks : get_value_connection(t)
    \/ \E t \in Tasks : get_value_type(t)
    \/ \E t \in Tasks : get_value_read(t)

SpecData == InitData /\ [][NextData]_vars

\* The program starts beside a relational backend that has its table.
InitRaw == Started /\ db \in {b \in Backends : b.kind \in RelKinds /\ b.schema = "assigned"}

\* One direct connect to a relational backend, execute_raw, and the commands
\* that take rows or the table away from under it, each awaited call a step
\* of its own.
NextRaw ==
    \/ \E t \in Tasks, kind \in RelKinds :
          /\ calls < MaxLoopCalls
          /\ Followed(kind)
          /\ connect(t, kind, "none")
    \/ \E t \in Tasks : backend_done(t)
    \/ \E t \in Tasks, kind \in RelKinds, stmt \in Statements :
          execute_raw(t, kind, stmt)
    \/ \E t \in Tasks : execute_raw_done(t)
    \/ \E t \in Tasks, kind \in RelKinds, pk_val \in KeyTexts :
          delete_row(t, kind, pk_val)
    \/ \E t \in Tasks : delete_row_done(t)
    \/ \E t \in Tasks, kind \in RelKinds, table_name \in TableArgs :
          drop_table(t, kind, table_name)
    \/ \E t \in Tasks : drop_table_done(t)
    \/ \E t \in Tasks, kind \in RelKinds, old_name \in TableArgs :
          \E new_name \in TableArgs \ {old_name} :
             rename_table(t, kind, old_name, new_name)
    \/ \E t \in Tasks : rename_table_done(t)
    \/ \E t \in Tasks, database \in Databases : use_database(t, database)
    \/ \E t \in Tasks : use_database_done(t)

SpecRaw == InitRaw /\ [][NextRaw]_vars

\* The marshalling of column values, one value at a time.
NextMarshal ==
    \E site \in Sites : \E type_name \in TypeNames(site) :
       \E null \in BOOLEAN, ok \in SUBSET Decoders, finite \in BOOLEAN :
          marshal_value(site, type_name, null, ok, finite)

SpecMarshal == Init /\ [][NextMarshal]_vars

\* ------------------------------------------------------------------ claims
\* Task t took the step and runs a backend command after it.
QueryStep(t) == tasks'[t] # tasks[t] /\ tasks'[t].op = "query"

\* Task t took the step that wrote its slot.
StoreStep(t) ==
    /\ tasks[t].op = "connect" /\ tasks[t].pc = "backend"
    /\ tasks'[t].pc = "done" /\ tasks'[t].result = "Connected"

\* Task t took the step that read its slot.
ReadStep(t) == QueryStep(t) /\ calls' = calls + 1

\* C1: a backend command that finds its slot empty returns "Not connected"
\* and awaits no network or database call: it is never suspended in a call
\* with an empty handle, and it has completed none when it returns.
C1_NotConnected ==
    \A t \in Tasks :
        (tasks[t].op = "query" /\ tasks[t].handle = None) =>
            /\ tasks[t].pc = "done"
            /\ tasks[t].result = "Not connected"
            /\ tasks[t].net = 0

\* C1 witness: a command has returned "Not connected" from an empty slot.
C1_Witness ==
    \E t \in Tasks :
        /\ tasks[t].op = "query" /\ tasks[t].result = "Not connected"
        /\ state[SlotOf(tasks[t].kind)] = None

\* C2: the slot write of a connect puts the new handle into the slot whatever
\* the slot held, leaves the other slots alone and ends in "Connected"; a
\* command that reads the slot gets the handle that is in it, which is the
\* one written last.
C2_LastWriterWins ==
    [][ \A t \in Tasks :
          /\ StoreStep(t) =>
                /\ state'[SlotOf(tasks[t].kind)] = tasks[t].id
                /\ \A k \in Kinds \ {tasks[t].kind} : state'[SlotOf(k)] = state[SlotOf(k)]
          /\ ReadStep(t) => tasks'[t].handle = state[SlotOf(tasks'[t].kind)]
      ]_vars

\* C2 witness: two connects of one kind have both succeeded, and the slot
\* holds the handle of one of them.
C2_Witness ==
    \E t, u \in Tasks :
        /\ t # u
        /\ tasks[t].op = "connect" /\ tasks[t].result = "Connected"
        /\ tasks[u].op = "connect" /\ tasks[u].result = "Connected"
        /\ tasks[t].kind = tasks[u].kind
        /\ state[SlotOf(tasks[t].kind)] = tasks[u].id

\* C3 as claimed: a connect that timed out has written neither its slot nor
\* the tunnel-session map.
C3_TimeoutLeavesRegistry ==
    \A t \in Tasks :
        (tasks[t].op = "connect" /\ tasks[t].pc = "done"
            /\ tasks[t].result = "Connection timed out") =>
            /\ tasks[t].wrote = {}
            /\ <<tasks[t].kind, tasks[t].tun>> \notin state.ssh_sessions

\* C4: no task holds a lock of the registry while it is suspended in an
\* await (or after its command returned).
C4_NoLockAcrossAwait ==
    \A t \in Tasks :
        tasks[t].pc \in AwaitPcs \cup {"idle", "done"} =>
            \A m \in MutexNames : mutex[m] # t

\* C4 witness: a connect has completed its slot write while a command of the
\* same kind is still suspended in a database call with the handle it cloned.
C4_Witness ==
    \E t, u \in Tasks :
        /\ tasks[t].op = "query" /\ tasks[t].pc = "call"
        /\ tasks[u].op = "connect" /\ tasks[u].result = "Connected"
        /\ tasks[u].kind = tasks[t].kind
        /\ state[SlotOf(tasks[t].kind)] = tasks[u].id
        /\ tasks[t].handle # tasks[u].id

\* C5: a step of a backend command leaves every connection slot and the
\* tunnel-session map unchanged, whether the command goes on, succeeds or
\* fails.
C5_OnlyConnectWrites ==
    [][ \A t \in Tasks : QueryStep(t) => state' = state ]_vars

\* C5 witness: a command has succeeded on a connected backend, whose slot
\* still holds the handle the command cloned.
C5_Witness ==
    \E t \in Tasks :
        /\ tasks[t].op = "query" /\ tasks[t].result = "Ok"
        /\ tasks[t].handle # None
        /\ state[SlotOf(tasks[t].kind)] = tasks[t].handle

\* A live tunnel session: an authenticated session whose listener and
\* accept loop exist.
Live(x) == tunnels[x].authed /\ tunnels[x].pc # "ended"

LiveTunnels(kind) == {x \in DOMAIN tunnels : tunnels[x].kind = kind /\ Live(x)}

\* C6 as claimed: at most one live tunnel session per backend kind.
C6_OneLiveTunnelPerKind ==
    \A k \in Kinds : Cardinality(LiveTunnels(k)) <= 1

\* C6 amended: ssh_sessions holds at most one session per backend kind, and
\* it is the session of a tunnel of that kind.
C6_OneSessionEntryPerKind ==
    \A k \in Kinds :
        /\ Cardinality({e \in state.ssh_sessions : e[1] = k}) <= 1
        /\ \A e \in state.ssh_sessions :
              e[1] = k => (e[2] \in DOMAIN tunnels /\ tunnels[e[2]].kind = k)

\* C6 witness: two tunnels of one kind are live, and ssh_sessions holds the
\* session of the later one only.
C6_Witness ==
    \E k \in Kinds :
        /\ Cardinality(LiveTunnels(k)) = 2
        /\ {e \in state.ssh_sessions : e[1] = k} = {<<k, 2>>}

\* C7 as claimed: a connect whose SSH password was rejected has no tunnel
\* (no listener, no forwarding task), and when it returns it returns an error.
C7_RejectedPasswordIsFatal ==
    \A t \in Tasks :
        (tasks[t].op = "connect" /\ tasks[t].auth = "rejected") =>
            /\ tasks[t].tun = 0
            /\ \A x \in DOMAIN tunnels : tunnels[x].by # tasks[t].id
            /\ tasks[t].pc = "done" => tasks[t].result \in Errors

\* C8: a connect whose sshConfig has no password never gets past the SSH
\* transport connection: it returns an error, binds no listener, spawns no
\* task, and writes nothing.
C8_NoPasswordFails ==
    \A t \in Tasks :
        (tasks[t].op = "connect" /\ tasks[t].ssh = "no_password") =>
            /\ tasks[t].pc \in {"ssh_connect", "done"}
            /\ tasks[t].pc = "done" =>
                  tasks[t].result \in {"SSH Connect Error",
                                       "Only password auth supported for now"}
            /\ tasks[t].tun = 0
            /\ \A x \in DOMAIN tunnels : tunnels[x].by # tasks[t].id
            /\ tasks[t].wrote = {}

\* C8 witness: the SSH transport connected and the missing password was
\* refused.
C8_Witness ==
    \E t \in Tasks :
        /\ tasks[t].op = "connect" /\ tasks[t].ssh = "no_password"
        /\ tasks[t].result = "Only password auth supported for now"

\* The accept loop of tunnel x took the step that ended a channel open in
\* failure.
ChannelOpenFailed(x) ==
    /\ tunnels[x].pc = "open"
    /\ Len(tunnels'[x].log) = Len(tunnels[x].log) + 1
    /\ tunnels'[x].log[Len(tunnels'[x].log)] = "fail"

\* C9: a failed channel open takes the accept loop back to accept, and no
\* command and no field of the registry learns of it.
C9_ChannelOpenFailureContinues ==
    [][ \A x \in DOMAIN tunnels :
          ChannelOpenFailed(x) =>
              /\ tunnels'[x].pc = "accept"
              /\ tasks' = tasks
              /\ state' = state
      ]_vars

\* C9 witness: after a failed channel open the loop accepted a later
\* connection and handed it to a copy task.
C9_Witness ==
    \E x \in DOMAIN tunnels :
        /\ tunnels[x].log = <<"fail", "ok">>
        /\ tunnels[x].copies = 1

\* C10: once accept has failed the loop is ended in every later state, and
\* the tunnel accepts no further connection.
C10_AcceptErrorEndsLoop ==
    [][ \A x \in DOMAIN tunnels :
          tunnels'[x].accept_failed =>
              /\ tunnels'[x].pc = "ended"
              /\ tunnels'[x].accepted = tunnels[x].accepted
              /\ tunnels'[x].log = tunnels[x].log
      ]_vars

\* C10 witness: a loop that had forwarded a connection has ended on a failed
\* accept.
C10_Witness ==
    \E x \in DOMAIN tunnels :
        /\ tunnels[x].accept_failed /\ tunnels[x].pc = "ended"
        /\ tunnels[x].log = <<"ok">>

\* C15: a connect with an sshConfig reaches its backend connection only with
\* its tunnel established, and connects to 127.0.0.1 on the local port of
\* that tunnel; a connect without one connects to the host and port of the
\* call; a slot changes only in the step that ends the last awaited call of
\* the backend connection of its kind in success, and takes that handle.
C15_TunnelThenBackendThenStore ==
    /\ [](\A t \in Tasks :
            (tasks[t].op = "connect" /\
                (tasks[t].pc = "backend" \/ tasks[t].result = "Connected")) =>
                IF tasks[t].ssh = "none"
                THEN tasks[t].tun = 0 /\ tasks[t].target = <<"host", "port", 0>>
                ELSE /\ tasks[t].tun \in DOMAIN tunnels
                     /\ tunnels[tasks[t].tun].by = tasks[t].id
                     /\ tunnels[tasks[t].tun].kind = tasks[t].kind
                     /\ tasks[t].target = <<"127.0.0.1", "local_port", tasks[t].tun>>)
    /\ [][ \A k \in Kinds :
              state'[SlotOf(k)] # state[SlotOf(k)] =>
                  \E t \in Tasks :
                      /\ StoreStep(t) /\ tasks[t].kind = k
                      /\ tasks[t].step = Len(BackendSteps(k))
                      /\ state'[SlotOf(k)] = tasks[t].id
          ]_vars

\* C15 witness: a connect through a tunnel and a direct connect have both
\* succeeded and their handles are in their slots.
C15_Witness ==
    \E t, u \in Tasks :
        /\ tasks[t].op = "connect" /\ tasks[t].result = "Connected"
        /\ tasks[t].ssh = "password"
        /\ tasks[t].target = <<"127.0.0.1", "local_port", tasks[t].tun>>
        /\ state[SlotOf(tasks[t].kind)] = tasks[t].id
        /\ tasks[u].op = "connect" /\ tasks[u].result = "Connected"
        /\ tasks[u].ssh = "none"
        /\ state[SlotOf(tasks[u].kind)] = tasks[u].id

\* C16 as claimed: get_rows of a table whose primary key is known returns
\* the rows offset+1 .. offset+limit of the table by ascending key, in each
\* of the three dialects.
C16_RowsOrderedByKey ==
    (reply.op = "get_rows" /\ reply.status = "ok" /\ reply.out.pk = "id") =>
        reply.out.rows = Page(Ascending(reply.before), reply.args[1], reply.args[2])

\* The last command was an update_cell or a delete_row that reached the
\* engine, which did not fail.
C17_Ran ==
    /\ reply.op \in {"update_cell", "delete_row"}
    /\ reply.status # "Not connected"
    /\ ~reply.out.fault

\* C17: in every dialect, update_cell and delete_row of a key no row has
\* return the count 0 and no error and leave the table as it was; a
\* delete_row that follows a successful delete_row of the same key returns 0.
C17_MissingKeyAffectsNothing ==
    /\ []((C17_Ran /\ \A r \in reply.before : ToString(r.id) # reply.args[1]) =>
            /\ reply.status = "ok"
            /\ reply.out.n = 0
            /\ db.rows = reply.before)
    /\ [][ ( /\ reply.op = "delete_row" /\ reply.status = "ok" /\ reply.out.n = 1
             /\ reply'.op = "delete_row" /\ reply'.args = reply.args
             /\ reply' # reply
             /\ ~reply'.out.fault ) =>
                (reply'.status = "ok" /\ reply'.out.n = 0 /\ db' = db)
          ]_vars

\* C17 witness: a delete_row has returned 0 for a key no row of the table
\* has, and the table, which has rows, is as it was.
C17_Witness ==
    /\ reply.op = "delete_row" /\ reply.status = "ok" /\ reply.out.n = 0
    /\ reply.before # {}
    /\ db.rows = reply.before

\* The read-only keywords of each dialect, as the claim lists them.
C18_ReadOnly(kind) ==
    CASE kind = "sqlite" ->
            { <<"s", "e", "l", "e", "c", "t">>, <<"p", "r", "a", "g", "m", "a">>, <<"e", "x", "p", "l", "a", "i", "n">> }
      [] kind = "mysql" ->
            { <<"s", "e", "l", "e", "c", "t">>, <<"s", "h", "o", "w">>, <<"d", "e", "s", "c", "r", "i", "b", "e">>,
              <<"e", "x", "p", "l", "a", "i", "n">> }
      [] kind = "postgres" ->
            { <<"s", "e", "l", "e", "c", "t">>, <<"s", "h", "o", "w">>, <<"e", "x", "p", "l", "a", "i", "n">> }

\* C18 as claimed: execute_raw returns a row list exactly for the
\* statements whose first word, after any white space and in any case,
\* begins with a read-only keyword of the dialect; every other statement is
\* executed and answered with "Success: N rows affected", N the number of
\* rows the statement affected.
C18_ExecuteRawClassifies ==
    (reply.op = "execute_raw" /\ reply.status = "ok") =>
        LET stmt == reply.args[1]
        IN  IF \E kw \in C18_ReadOnly(reply.kind) :
                  /\ Len(kw) <= Len(stmt.word)
                  /\ SubSeq(stmt.word, 1, Len(kw)) = kw
            THEN reply.out.shape = "rows"
            ELSE /\ reply.out.shape = "message"
                 /\ reply.out.n = Cardinality(reply.before) - Cardinality(db.rows)
                 /\ reply.out.text =
                        "Success: " \o ToString(reply.out.n) \o " rows affected"

\* The JSON array of at most two members.
C20_Array(val) ==
    IF Len(val) = 0 THEN "[]"
    ELSE IF Len(val) = 1 THEN "[\"" \o val[1] \o "\"]"
    ELSE "[\"" \o val[1] \o "\",\"" \o val[2] \o "\"]"

\* The JSON object of at most two pairs.
C20_Object(o) ==
    IF Len(o) = 0 THEN "{}"
    ELSE IF Len(o) = 1 THEN "{\"" \o o[1][1] \o "\":\"" \o o[1][2] \o "\"}"
    ELSE "{\"" \o o[1][1] \o "\":\"" \o o[1][2] \o "\",\"" \o
         o[2][1] \o "\":\"" \o o[2][2] \o "\"}"

\* The texts the claim allows get_value to return for the type tag it was
\* given and what the key holds when it is read.
C20_Expected(tag, key) ==
    CASE tag = "string" -> {key.str}
      [] tag \in {"list", "zset"} -> {C20_Array(key.list)}
      [] tag = "set" -> {C20_Array(o) : o \in Orders(key.set)}
      [] tag = "hash" -> {C20_Object(o) : o \in Orders(key.hash)}
      [] OTHER -> {"Unsupported type: " \o tag}

\* C20: get_value reads the type tag first and the value by the tag after
\* it.  When it succeeds it returns the raw string of a string key, the JSON
\* array of the members of a list, set or sorted set, the JSON object of the
\* fields of a hash, each as the key holds them when they are read; for
\* every other type tag, that of a missing key included, it makes no read
\* and returns "Unsupported type: <type>" as a success.
C20_GetValueByType ==
    /\ (reply.op = "get_value" /\ reply.status = "ok") =>
            /\ reply.before.tag # ""
            /\ reply.out \in C20_Expected(reply.before.tag, reply.before.key)
    /\ ( /\ reply.op = "get_value"
         /\ reply.before.tag \notin {"", "string", "list", "set", "zset", "hash"} ) =>
            /\ reply.status = "ok"
            /\ reply.out = "Unsupported type: " \o reply.before.tag
            /\ reply.before.key.type = reply.before.tag

\* C20 witness: get_value has returned the members of a sorted set of two.
C20_Witness ==
    /\ reply.op = "get_value" /\ reply.status = "ok"
    /\ reply.before.tag = "zset" /\ reply.before.key.list = <<"b", "a">>
    /\ reply.out = "[\"b\",\"a\"]"

\* The value insert_row is to bind for a JSON value.
C19_Bound(v) ==
    CASE v.t = "string" -> [null |-> FALSE, text |-> v.s]
      [] v.t = "null"   -> [null |-> TRUE, text |-> ""]
      [] v.t = "number" -> [null |-> FALSE, text |-> ToString(v.n)]
      [] v.t = "bool"   -> [null |-> FALSE, text |-> IF v.b THEN "true" ELSE "false"]

\* C19: the statement insert_row builds has one quoted column name, one
\* placeholder and one bound value per entry of the map, in the order of
\* the map; a string is bound as its text, null as NULL, any other value as
\* its JSON text; postgres casts placeholder i to the declared type of the
\* column, to text if its lookup found no such column in the table.
C19_InsertRowBinds ==
    (reply.op = "insert_row" /\ reply.out # <<>>) =>
        LET data == reply.args[1]
            out  == reply.out
            q    == IF reply.kind = "mysql" THEN Backtick ELSE "\""
        IN  /\ DOMAIN out.cols = DOMAIN data
            /\ DOMAIN out.placeholders = DOMAIN data
            /\ DOMAIN out.binds = DOMAIN data
            /\ \A i \in DOMAIN data :
                  /\ out.cols[i] = q \o data[i][1] \o q
                  /\ out.binds[i] = C19_Bound(data[i][2])
                  /\ out.placeholders[i] =
                        IF reply.kind # "postgres" THEN "?"
                        ELSE "$" \o ToString(i) \o "::" \o
                             (CASE out.types = "no_types" -> "text"
                                [] data[i][1] = "id"      -> "int4"
                                [] data[i][1] = "name"    -> "text"
                                [] OTHER                  -> "text")

\* C19 witness: postgres has inserted a row from a map of a number and a
\* null.
C19_Witness ==
    /\ reply.op = "insert_row" /\ reply.kind = "postgres" /\ reply.status = "ok"
    /\ reply.args[1] = <<<<"name", JNull>>, <<"id", JNum(2)>>>>
    /\ reply.out.q = "INSERT INTO public.\"t\" (\"name\", \"id\") VALUES ($1::text, $2::int4)"
    /\ [id |-> 2, name |-> Null] \in db.rows

\* The connections of tunnel x in state st.
ConnsIn(x, st) == {c \in DOMAIN tunnels[x].conns : tunnels[x].conns[c].st = st}

\* C11: the session lock is taken only while the loop opens a channel, never
\* while it waits in accept or for the lock and never on behalf of a copy;
\* every forwarded connection has a copy task of its own, and while copy
\* tasks run the loop can accept the next connection.
C11_LockOnlyWhileOpening ==
    \A x \in DOMAIN tunnels :
        /\ tunnels[x].locked => tunnels[x].pc = "open"
        /\ tunnels[x].copies = Cardinality(ConnsIn(x, "copying"))
        /\ (tunnels[x].pc = "accept" /\ Accepted(Len(tunnels)) < MaxConns) =>
              ENABLED accept_ok(x)

\* C11 witness: the loop has forwarded a second connection while the copy
\* task of the first one is still running.
C11_Witness ==
    \E x \in DOMAIN tunnels :
        /\ tunnels[x].copies = 2
        /\ tunnels[x].log = <<"ok", "ok">>
        /\ ~tunnels[x].locked

\* C12: the loop never waits for the session lock: whenever it is about to
\* lock, the lock is free and the step that takes it can be taken; only the
\* loop takes the lock, and every iteration that ends, in a spawned copy or
\* in a failed channel open, leaves the lock free and the loop in accept.
C12_NoDeadlockOnSessionLock ==
    /\ [](\A x \in DOMAIN tunnels :
              tunnels[x].pc = "lock" => ENABLED session_lock(x))
    /\ [][ \A x \in DOMAIN tunnels :
              /\ (tunnels'[x].locked /\ ~tunnels[x].locked) =>
                    (tunnels[x].pc = "lock" /\ tunnels'[x].pc = "open")
              /\ (tunnels[x].pc = "open" /\ tunnels'[x].pc # "open") =>
                    (~tunnels'[x].locked /\ tunnels'[x].pc = "accept")
          ]_vars

\* C12 witness: after an iteration that ended in a failed channel open the
\* loop has taken the lock again.
C12_Witness ==
    \E x \in DOMAIN tunnels :
        /\ tunnels[x].log = <<"fail">>
        /\ tunnels[x].pc = "open" /\ tunnels[x].locked

\* The copy task of connection c of tunnel x took a step in which a side
\* reached end-of-stream or failed.
CopyEnded(x, c) ==
    /\ tunnels[x].conns[c].st = "copying"
    /\ \/ tunnels'[x].conns[c].local # tunnels[x].conns[c].local
       \/ tunnels'[x].conns[c].remote # tunnels[x].conns[c].remote
       \/ tunnels'[x].conns[c].fault

\* Every accepted stream is held by the loop, owned by a running copy task,
\* or closed.
NoStreamLost(x) ==
    /\ tunnels[x].accepted =
            (IF tunnels[x].stream THEN 1 ELSE 0) + tunnels[x].copies + tunnels[x].closed
    /\ tunnels[x].closed = Cardinality(ConnsIn(x, "closed"))

\* A step of a copy task that returns closes both ends, a failed channel
\* open closes the accepted stream, and neither stops the loop.
ClosedOnReturn(x) ==
    /\ \A c \in DOMAIN tunnels[x].conns :
          (tunnels[x].conns[c].st = "copying" /\ tunnels'[x].conns[c].st # "copying") =>
              /\ tunnels'[x].conns[c].st = "closed"
              /\ tunnels'[x].closed = tunnels[x].closed + 1
              /\ tunnels'[x].copies = tunnels[x].copies - 1
              /\ tunnels'[x].pc = tunnels[x].pc
    /\ ChannelOpenFailed(x) =>
          /\ tunnels'[x].conns[Len(tunnels[x].conns)].st = "closed"
          /\ ~tunnels'[x].stream
          /\ tunnels'[x].closed = tunnels[x].closed + 1
          /\ tunnels'[x].pc = "accept"

\* C13 as claimed: no accepted stream is lost, and as soon as either side of
\* a splice reaches end-of-stream or fails, the copy stops and both ends are
\* closed.
C13_EitherEofStopsCopy ==
    /\ [](\A x \in DOMAIN tunnels : NoStreamLost(x))
    /\ [][ \A x \in DOMAIN tunnels :
              /\ ClosedOnReturn(x)
              /\ \A c \in DOMAIN tunnels[x].conns :
                    CopyEnded(x, c) => tunnels'[x].conns[c].st = "closed"
          ]_vars

\* C13 amended: no accepted stream is lost; the copy stops and both ends are
\* closed when either side fails or when both sides have reached
\* end-of-stream; a failed channel open closes the accepted stream; the loop
\* goes on accepting in every case.
C13_NoSocketLeaked ==
    /\ [](\A x \in DOMAIN tunnels : NoStreamLost(x))
    /\ [][ \A x \in DOMAIN tunnels :
              /\ ClosedOnReturn(x)
              /\ \A c \in DOMAIN tunnels[x].conns :
                    (CopyEnded(x, c) /\
                        (tunnels'[x].conns[c].fault \/
                            (tunnels'[x].conns[c].local = "eof" /\
                             tunnels'[x].conns[c].remote = "eof"))) =>
                        tunnels'[x].conns[c].st = "closed"
          ]_vars

\* C13 witness: one connection was closed by a failed channel open, another
\* after both sides of its splice reached end-of-stream, and the loop is
\* back in accept.
C13_Witness ==
    \E x \in DOMAIN tunnels :
        /\ tunnels[x].pc = "accept"
        /\ tunnels[x].closed = 2 /\ tunnels[x].copies = 0
        /\ \E c, d \in DOMAIN tunnels[x].conns :
              /\ tunnels[x].conns[c].st = "closed" /\ tunnels[x].conns[c].fault
              /\ tunnels[x].conns[d].st = "closed" /\ ~tunnels[x].conns[d].fault
              /\ tunnels[x].conns[d].local = "eof"
              /\ tunnels[x].conns[d].remote = "eof"

\* The bytes the remote target sends when it has answered n of the bytes B.
Response(B, n) == [i \in 1..n |-> Reply(B[i])]

\* C14 as claimed: on a tunnel that open_tunnel returned, a connection the
\* network did not fail ends only when client and remote target both ended
\* it, the remote target has then received exactly the bytes the client
\* sent, and the client exactly the bytes the remote target answered; at
\* every moment the bytes forwarded are, in order, the first of these.
C14_SpliceIsTransparent ==
    \A x \in DOMAIN tunnels : \A c \in DOMAIN tunnels[x].conns :
        LET conn == tunnels[x].conns[c]
        IN  /\ Len(conn.fwd) <= Len(conn.sent)
            /\ conn.fwd = SubSeq(conn.sent, 1, Len(conn.fwd))
            /\ Len(conn.recv) <= conn.replied
            /\ conn.recv = Response(conn.sent, Len(conn.recv))
            /\ (conn.st = "closed" /\ ~conn.fault) =>
                  /\ conn.local = "eof" /\ conn.remote = "eof"
                  /\ conn.fwd = conn.sent
                  /\ conn.recv = Response(conn.sent, conn.replied)

\* Task t took the step, as a connect command.
ConnectStep(t) == tasks'[t] # tasks[t] /\ tasks'[t].op = "connect"

\* C25: every database call of a command is made on the handle the command
\* cloned from its slot when it started, which is the handle the slot held
\* at that moment, the one of the latest slot write; a slot write of a
\* connect leaves the commands in flight as they are.
C25_OperationKeepsItsHandle ==
    /\ [](\A t \in Tasks :
            tasks[t].op = "query" => tasks[t].used \subseteq {tasks[t].handle})
    /\ [][\A t \in Tasks :
            /\ ReadStep(t) => tasks'[t].handle = state[SlotOf(tasks'[t].kind)]
            /\ (tasks[t].op = "query" /\ tasks[t].pc = "call") =>
                    tasks'[t].handle = tasks[t].handle
            /\ StoreStep(t) => \A u \in Tasks \ {t} : tasks'[u] = tasks[u]
          ]_vars

\* C25 witness: a command has made a call that succeeded on the handle it
\* cloned, after a connect had put another handle into its slot.
C25_Witness ==
    \E t \in Tasks :
        /\ tasks[t].op = "query" /\ tasks[t].result = "Ok"
        /\ tasks[t].handle # None
        /\ tasks[t].used = {tasks[t].handle}
        /\ state[SlotOf(tasks[t].kind)] # tasks[t].handle

\* C26: a connect that returns an error has written no connection slot, the
\* step in which it returns leaves every slot as it was, and no step of a
\* connect changes the slot of another kind.
C26_FailedConnectLeavesSlots ==
    /\ [](\A t \in Tasks :
            (/\ tasks[t].op = "connect" /\ tasks[t].pc = "done"
             /\ tasks[t].result # "Connected") =>
                tasks[t].wrote \cap SlotNames = {})
    /\ [][\A t \in Tasks : ConnectStep(t) =>
            /\ \A s \in SlotNames \ {SlotOf(tasks'[t].kind)} : state'[s] = state[s]
            /\ (tasks'[t].pc = "done" /\ tasks'[t].result # "Connected") =>
                    \A s \in SlotNames : state'[s] = state[s]
          ]_vars

\* C26 witness: a connect through a tunnel has failed at its backend
\* connection while its slot holds the handle of an earlier connect.
C26_Witness ==
    \E t \in Tasks :
        /\ tasks[t].op = "connect" /\ tasks[t].pc = "done"
        /\ tasks[t].result = "driver error"
        /\ tasks[t].tun # 0
        /\ state[SlotOf(tasks[t].kind)] \notin {None, tasks[t].id}

\* The calls the claim requires to have succeeded before a handle of the
\* kind is stored.
C27_Required(kind) ==
    CASE kind = "redis"    -> {"get_multiplexed_async_connection", "PING"}
      [] kind = "mongodb"  -> {"list_database_names"}
      [] kind = "sqlite"   -> {"connect"}
      [] OTHER             -> {"connect_with"}

\* C27: a step that changes a connection slot is the step of a connect of
\* that kind, it stores the handle of that connect, and every call that
\* verifies a connection of the kind has returned Ok to that connect.
C27_StoredHandleVerified ==
    [][\A s \in SlotNames : state'[s] # state[s] =>
          \E t \in Tasks :
             /\ ConnectStep(t)
             /\ SlotOf(tasks'[t].kind) = s
             /\ state'[s] = tasks'[t].id
             /\ \A call \in C27_Required(tasks'[t].kind) :
                   \E i \in DOMAIN tasks'[t].verified : tasks'[t].verified[i] = call
      ]_vars

\* C27 witness: the redis slot holds the handle of a connect to which the
\* connection and then PING have returned Ok.
C27_Witness ==
    \E t \in Tasks :
        /\ tasks[t].op = "connect" /\ tasks[t].kind = "redis"
        /\ state["redis_client"] = tasks[t].id
        /\ tasks[t].verified = <<"get_multiplexed_async_connection", "PING">>

\* C28: no step empties a connection slot that holds a handle, and a command
\* returns "Not connected" only from an empty slot; so once a connect of a
\* kind has succeeded no later command of the kind returns "Not connected".
C28_SlotNeverEmptied ==
    [][/\ \A s \in SlotNames : state[s] # None => state'[s] # None
       /\ \A t \in Tasks :
             (tasks'[t] # tasks[t] /\ tasks'[t].result = "Not connected") =>
                 state[SlotOf(tasks'[t].kind)] = None
      ]_vars

\* C28 witness: a reconnect has timed out on an occupied slot, and a command
\* of the kind is in its database call on the handle the slot still holds.
C28_Witness ==
    \E t, u \in Tasks :
        /\ tasks[t].op = "connect" /\ tasks[t].result = "Connection timed out"
        /\ state[SlotOf(tasks[t].kind)] # None
        /\ tasks[u].op = "query" /\ tasks[u].kind = tasks[t].kind
        /\ tasks[u].pc = "call"
        /\ tasks[u].handle = state[SlotOf(tasks[t].kind)]

\* C30: the session entry and the slot are written in two steps of a
\* tunnelled connect.  The first, when the tunnel is established and before
\* any call of the backend connection, leaves the key of the kind with the
\* session of this call and changes no slot; the second, when the connect
\* returns "Connected", changes the slot and leaves ssh_sessions as it is.
C30_TwoCriticalSections ==
    [][\A t \in Tasks : ConnectStep(t) =>
          /\ (tasks[t].pc = "bind" /\ tasks'[t].pc = "backend") =>
                /\ tasks'[t].verified = <<>>
                /\ \A s \in SlotNames : state'[s] = state[s]
                /\ <<tasks'[t].kind, tasks'[t].tun>> \in state'.ssh_sessions
                /\ \A e \in state'.ssh_sessions :
                      e[1] = tasks'[t].kind => e[2] = tasks'[t].tun
          /\ (\E s \in SlotNames : state'[s] # state[s]) =>
                /\ tasks'[t].result = "Connected"
                /\ state'.ssh_sessions = state.ssh_sessions
      ]_vars

\* C30 witness: two tunnelled connects of one kind have both succeeded; the
\* slot holds the handle of one and ssh_sessions the session of the other.
C30_Witness ==
    \E t, u \in Tasks :
        /\ t # u
        /\ tasks[t].op = "connect" /\ tasks[u].op = "connect"
        /\ tasks[t].kind = tasks[u].kind
        /\ tasks[t].result = "Connected" /\ tasks[u].result = "Connected"
        /\ tasks[t].tun # 0 /\ tasks[u].tun # 0
        /\ state[SlotOf(tasks[t].kind)] = tasks[t].id
        /\ <<tasks[u].kind, tasks[u].tun>> \in state.ssh_sessions

\* C29: the loop holds at most one accepted connection, the last one it
\* accepted, and only between accept and the end of the channel open; while
\* it holds one it accepts no other; the connection that a channel open
\* hands to a copy task is the last one accepted, so the connections reach
\* their copy tasks in the order of accept.
C29_OneAtATimeUpToChannelOpen ==
    /\ [](\A x \in DOMAIN tunnels : \A c \in DOMAIN tunnels[x].conns :
            tunnels[x].conns[c].st = "held" =>
                /\ c = Len(tunnels[x].conns)
                /\ tunnels[x].pc \in {"lock", "open"})
    /\ [][\A x \in DOMAIN tunnels :
            /\ tunnels[x].pc \in {"lock", "open"} =>
                    tunnels'[x].accepted = tunnels[x].accepted
            /\ \A c \in DOMAIN tunnels[x].conns :
                  (/\ tunnels[x].conns[c].st = "held"
                   /\ tunnels'[x].conns[c].st = "copying") =>
                        /\ tunnels[x].pc = "open" /\ tunnels[x].locked
                        /\ c = Len(tunnels'[x].conns)
          ]_vars

\* C29 witness: the channel open of the second connection is pending while
\* the first one is with its copy task.
C29_Witness ==
    \E x \in DOMAIN tunnels :
        /\ tunnels[x].pc = "open"
        /\ Len(tunnels[x].conns) = 2
        /\ tunnels[x].conns[1].st = "copying"
        /\ tunnels[x].conns[2].st = "held"

\* C24 as claimed: the commands of the key-value store run on the connection
\* the connect made: a command opens no transport connection of its own.
C24_OneConnectionForAllOperations ==
    \A t \in Tasks :
        (tasks[t].op = "query" /\ tasks[t].kind = "redis") => tasks[t].opened = 0

\* C23 as claimed: a command of which a database call has returned an error
\* has returned that error to its caller: it makes no further call and it
\* does not return a success.
C23_DriverErrorsSurface ==
    \A t \in Tasks :
        (tasks[t].op = "query" /\ tasks[t].failed > 0) =>
            (tasks[t].pc = "done" /\ tasks[t].result = "driver error")

\* C22 as claimed: get_primary_key returns the column of the key of a table
\* whose primary key is one column, and none for a table without a primary
\* key and for a table whose primary key has several columns.
C22_OnlySingleColumnKey ==
    (reply.op = "get_primary_key" /\ reply.status = "ok") =>
        LET key == { i \in DOMAIN TableInfo[reply.args[1]] :
                        TableInfo[reply.args[1]][i].pk > 0 }
        IN  IF Cardinality(key) = 1
            THEN \E i \in key : reply.out = TableInfo[reply.args[1]][i].name
            ELSE reply.out = "none"

\* C21 as claimed: marshalling a value never panics and always gives one of
\* Null, Bool, Int64, Float64, String; when the value is not NULL and the
\* typed decoder of its type tag fails, or its tag has none, the result is a
\* String if the value decodes as text or as bytes, and Null only if it
\* decodes as neither.
C21_MarshalNeverRaises ==
    reply.op = "marshal" =>
        LET type_name == reply.args[1]
            null      == reply.args[2]
            ok        == reply.args[3]
            specific  == CASE arm(reply.kind, type_name) = "int"   -> {"i64"}
                           [] arm(reply.kind, type_name) = "float" -> {"f64"}
                           [] arm(reply.kind, type_name) = "bool"  -> {"bool"}
                           [] OTHER -> {}
        IN  /\ reply.out \in {"Null", "Bool", "Int64", "Float64", "String"}
            /\ (~null /\ specific \cap ok = {}) =>
                  reply.out = IF ok \cap {"bytes", "string"} # {} THEN "String"
                              ELSE "Null"

====
